---- MODULE Spec2Model ----
(***************************************************************************)
(* The GitHub aggregation and fallback layer of the portfolio site:        *)
(* the upstream client (axios-config), the fetchers and aggregators of     *)
(* lib/github-utils.ts, the project catalog of lib/projects-utils.ts and   *)
(* the route handlers under app/api.                                       *)
(*                                                                         *)
(* Strings that the code takes apart (the repo path parameter, endpoints,  *)
(* error messages) are sequences of tokens; timestamps are integers (the   *)
(* value of new Date(s).getTime()); a JavaScript object whose key order    *)
(* matters (a language breakdown) is a sequence of [language, bytes]       *)
(* entries in insertion order.                                             *)
(***************************************************************************)
EXTENDS Integers, Sequences, FiniteSets, TLC

VARIABLES
    up,                  \* the upstream account: the repositories GitHub holds
    fault,               \* the failure, if any, upstream answers each call class with
    \* ---- getGitHubStats (lib/github-utils.ts)
    gsPc,                \* position of the getGitHubStats call
    repositories,        \* const repositories
    languageCounts,      \* const languageCounts, keys in insertion order
    langPending,         \* language fetches in flight (indexes into repositories)
    recentCommitsArrays, \* slots of Promise.all(recentCommitsPromises)
    commitPending,       \* commit fetches in flight
    mostUsedLanguages,   \* const mostUsedLanguages
    gsResult,            \* the GitHubStats returned
    stResponse,          \* the response of GET /api/github/stats
    \* ---- GET /api/github/repos/[repo] and its getRepositoryStats call
    repoParam,           \* params.repo
    rtPc,                \* position of the handler
    rsCaller,            \* who called getRepositoryStats: the route or the catalog
    rsRepoName,          \* the repoName argument of getRepositoryStats
    rsStarted,           \* sub-fetches of getRepositoryStats that have been started
    rsSlots,             \* slots of its Promise.all: [repoDetails, languages, commits]
    rsOrder,             \* the order in which the sub-fetches resolved
    rsEndpoints,         \* the upstream endpoints getRepositoryStats has requested
    rsResult,            \* the value getRepositoryStats returned
    rtResponse,          \* the response of the handler
    \* ---- the upstream client over time (lib/axios-config.ts)
    now,                 \* the clock, in seconds
    roundTrips,          \* the network round trips made: [key, at]
    \* ---- the display order of the catalog (processProjectsForDisplay, ProjectsFilterSection)
    pdPc,                \* position: idle, loaded, processed or sorted
    pdRepos,             \* the repositories the loaded entries were converted from, if any
    pdProjects,          \* the entries handed to the sort
    pdDisplayed,         \* the entries in display order
    \* ---- GET /api/projects with its type parameter
    pjPc,                \* position of the handler
    pjQuery,             \* searchParams: the parameters present, each a string of characters
    pjResponse,          \* the response of the handler
    \* ---- GET /api/projects over getEnhancedProjects
    epPc,                \* position of the handler
    epRepos,             \* const githubRepos
    epSlots,             \* slots of Promise.all(projects.map(...))
    epResult,            \* the value getEnhancedProjects returned
    epResponse,          \* the response of the handler
    \* ---- GET /api/projects over getFeaturedProjects alone
    fpPc,                \* position of the handler
    fpResponse,          \* the response of the handler
    \* ---- applyProjectFilters called with an array of repositories and filters
    afPc,                \* position of the call: idle or returned
    afFilters,           \* the filters argument
    afInput,             \* the repositories argument as the call left it
    afResult,            \* the array returned
    \* ---- the projects page (ProjectsPageClient)
    ppPc,                \* position of its effect: idle, fetching or done
    ppProjects,          \* its state projects
    ppError,             \* its state error
    \* ---- the account-stats view (GitHubStats)
    svPc,                \* position of its effect: idle, fetching or done
    svStats,             \* its state stats
    svLoading,           \* its state loading
    svError,             \* its state error
    \* ---- the response interceptor of the upstream client on one failed exchange
    riPc,                \* position: idle or rejected
    riExchange,          \* the failed exchange: status, headers and body message
    riError,             \* the error the interceptor rejected with
    \* ---- one call of a fetcher of lib/github-utils.ts
    ftPc,                \* position: idle or returned
    ftFetcher,           \* the fetcher called, by the class of its upstream call
    ftOutcome,           \* what its request came back with: data, or the error caught
    ftResult,            \* what the fetcher returned
    ftLog,               \* the console.error entries written during the call
    ftRequests           \* the upstream requests issued during the call

varsUp == <<up, fault>>
varsStats == <<gsPc, repositories, languageCounts, langPending,
               recentCommitsArrays, commitPending, mostUsedLanguages, gsResult>>
varsRoute == <<repoParam, rtPc, rsCaller, rsRepoName, rsStarted, rsSlots, rsOrder,
               rsEndpoints, rsResult, rtResponse>>
varsStatsRoute == <<stResponse>>
varsClient == <<now, roundTrips>>
varsDisplay == <<pdPc, pdRepos, pdProjects, pdDisplayed>>
varsProjects == <<pjPc, pjQuery, pjResponse>>
varsEnhanced == <<epPc, epRepos, epSlots, epResult, epResponse>>
varsFeatured == <<fpPc, fpResponse>>
varsCatalog == <<varsDisplay, varsProjects, varsEnhanced, varsFeatured>>
varsFilters == <<afPc, afFilters, afInput, afResult>>
varsPages == <<ppPc, ppProjects, ppError, svPc, svStats, svLoading, svError>>
varsInterceptor == <<riPc, riExchange, riError>>
varsFetcher == <<ftPc, ftFetcher, ftOutcome, ftResult, ftLog, ftRequests>>
vars == <<varsUp, varsStats, varsStatsRoute, varsRoute, varsClient, varsCatalog, varsFilters, varsPages,
          varsInterceptor, varsFetcher>>

\* What the steps of one handler leave alone
OtherThanStats == <<varsStatsRoute, varsRoute, varsClient, varsCatalog, varsFilters, varsPages, varsInterceptor, varsFetcher>>
OtherThanRoute == <<varsStats, varsStatsRoute, varsClient, varsCatalog, varsFilters, varsPages, varsInterceptor, varsFetcher>>
OtherThanClient == <<varsStats, varsStatsRoute, varsRoute, varsCatalog, varsFilters, varsPages, varsInterceptor, varsFetcher>>
OtherThanDisplay == <<varsStats, varsStatsRoute, varsRoute, varsClient, varsProjects, varsEnhanced, varsFeatured, varsFilters, varsPages, varsInterceptor, varsFetcher>>
OtherThanProjects == <<varsStats, varsStatsRoute, varsRoute, varsClient, varsDisplay, varsEnhanced, varsFeatured, varsFilters, varsPages, varsInterceptor, varsFetcher>>
OtherThanEnhanced == <<varsStats, varsStatsRoute, varsRoute, varsClient, varsDisplay, varsProjects, varsFeatured, varsFilters, varsPages, varsInterceptor, varsFetcher>>
OtherThanFeatured == <<varsStats, varsStatsRoute, varsRoute, varsClient, varsDisplay, varsProjects, varsEnhanced, varsFilters, varsPages, varsInterceptor, varsFetcher>>
OtherThanFilters == <<varsStats, varsStatsRoute, varsRoute, varsClient, varsCatalog, varsPages, varsInterceptor, varsFetcher>>
OtherThanPages == <<varsStats, varsStatsRoute, varsRoute, varsClient, varsCatalog, varsFilters, varsInterceptor, varsFetcher>>
OtherThanInterceptor ==
    <<varsStats, varsStatsRoute, varsRoute, varsClient, varsCatalog, varsFilters, varsPages, varsFetcher>>
OtherThanFetcher ==
    <<varsStats, varsStatsRoute, varsRoute, varsClient, varsCatalog, varsFilters, varsPages, varsInterceptor>>

-----------------------------------------------------------------------------
(* JavaScript values and array helpers *)

\* null where a string is expected, and null where an object is expected
Null == "null"
NullObject == [isNull |-> TRUE]
\* A slot of a Promise.all array: not yet resolved, or resolved to a value
Pending == [resolved |-> FALSE]
Resolved(v) == [resolved |-> TRUE, value |-> v]

\* NextResponse.json({success, error, data}, {status})
Json(status, success, error, data) ==
    [status |-> status, success |-> success, error |-> error, data |-> data]

Min(a, b) == IF a <= b THEN a ELSE b

\* Array.prototype.slice(0, n) for n >= 0
Slice(s, n) == SubSeq(s, 1, Min(n, Len(s)))

\* Array.prototype.filter: the elements of s that are in keep, in the order of s
\* (the array is bound to a, so that it is evaluated once)
FilterSeq(s, keep) ==
    CHOOSE filtered \in
        { LET kept == {i \in 1..Len(a) : a[i] \in keep}
          IN  [k \in 1..Cardinality(kept) |->
                  a[CHOOSE i \in kept : Cardinality({j \in kept : j <= i}) = k]]
          : a \in {s} } : TRUE

\* Array.prototype.flat() of an array of arrays
RECURSIVE Flat(_)
Flat(ss) == IF ss = <<>> THEN <<>> ELSE Head(ss) \o Flat(Tail(ss))

\* Array.prototype.sort((a, b) => keys(a) - keys(b)), keys[i] the key of s[i]:
\* ascending in the key and stable (ECMAScript 2019), so s[i] lands after the
\* elements of smaller key and the earlier elements of equal key.
\* (the array and the keys are bound to a and ky, so that they are evaluated once)
SortAscending(s, keys) ==
    CHOOSE sorted \in
        { LET place(i) == 1 + Cardinality({j \in 1..Len(a) :
                                              ky[j] < ky[i] \/ (ky[j] = ky[i] /\ j < i)})
          IN  [k \in 1..Len(a) |-> a[CHOOSE i \in 1..Len(a) : place(i) = k]]
          : <<a, ky>> \in {<<s, keys>>} } : TRUE

\* s sorted by the comparator (a, b) => keys(b) - keys(a)
SortDescending(s, keys) == SortAscending(s, [i \in 1..Len(s) |-> 0 - keys[i]])

RECURSIVE SumSeq(_)
SumSeq(s) == IF s = <<>> THEN 0 ELSE Head(s) + SumSeq(Tail(s))

-----------------------------------------------------------------------------
(* JavaScript values of optional and parsed fields *)

Undefined == [kind |-> "undefined"]
JsNull == [kind |-> "null"]
NaN == [kind |-> "NaN"]
Num(n) == [kind |-> "number", n |-> n]
Bool(b) == [kind |-> "boolean", b |-> b]
Str(x) == [kind |-> "string", s |-> x]
Arr(items) == [kind |-> "array", items |-> items]

\* ToBoolean
Truthy(v) ==
    CASE v.kind = "number"  -> v.n # 0
      [] v.kind = "boolean" -> v.b
      [] v.kind = "string"  -> v.s # ""
      [] v.kind = "array"   -> TRUE
      [] OTHER              -> FALSE

\* obj.key of an object given by its own properties: undefined when it has none
Get(obj, key) == IF key \in DOMAIN obj THEN obj[key] ELSE Undefined

\* { ...a, ...b }: every own property of b, undefined ones too, overrides a's
Spread(a, b) == [k \in DOMAIN a \cup DOMAIN b |-> IF k \in DOMAIN b THEN b[k] ELSE a[k]]

\* Array.prototype.slice(0, n) for any integer n
SliceTo(s, n) ==
    IF n >= 0 THEN Slice(s, n)
    ELSE IF Len(s) + n > 0 THEN SubSeq(s, 1, Len(s) + n) ELSE <<>>

Digits == <<"0", "1", "2", "3", "4", "5", "6", "7", "8", "9">>
IsDigit(c) == \E d \in 1..Len(Digits) : Digits[d] = c
DigitValue(c) == (CHOOSE d \in 1..Len(Digits) : Digits[d] = c) - 1

\* The value of the leading digits of the characters cs, read after the value acc
RECURSIVE ParseDigits(_, _)
ParseDigits(cs, acc) ==
    IF cs = <<>> \/ ~IsDigit(Head(cs)) THEN acc
    ELSE ParseDigits(Tail(cs), acc * 10 + DigitValue(Head(cs)))

\* parseInt of a string given by its characters: the leading digits, NaN without any
ParseInt(cs) ==
    IF cs # <<>> /\ IsDigit(cs[1]) THEN Num(ParseDigits(cs, 0))
    ELSE IF Len(cs) > 1 /\ cs[1] = "-" /\ IsDigit(cs[2]) THEN Num(0 - ParseDigits(Tail(cs), 0))
    ELSE NaN

-----------------------------------------------------------------------------
(* The upstream provider *)

USERNAME == <<"Cyrochrome">>

CallClasses == {"list", "details", "languages", "commits"}

\* What upstream can answer a call with, besides serving it.
FaultKinds == {"none", "rate_limit", "too_many", "server", "client", "network"}

\* The HTTP exchange of one call: the response status (0: no response at all), the
\* x-ratelimit-remaining header, the characters of the x-ratelimit-reset header (none
\* when it is absent) and the message of the body.
FaultResponse(kind) ==
    CASE kind = "rate_limit" -> [status |-> 403, remaining |-> "0", reset |-> <<"1", "7">>,
                                 message |-> <<"API", "rate", "limit", "exceeded">>]
      [] kind = "too_many"   -> [status |-> 429, remaining |-> "1", reset |-> <<"1", "7">>,
                                 message |-> <<"You", "have", "exceeded", "a", "secondary", "rate", "limit">>]
      [] kind = "server"     -> [status |-> 502, remaining |-> "1", reset |-> <<>>, message |-> <<"Bad", "Gateway">>]
      [] kind = "client"     -> [status |-> 422, remaining |-> "1", reset |-> <<>>, message |-> <<"Validation", "Failed">>]
      [] kind = "network"    -> [status |-> 0, remaining |-> "", reset |-> <<>>, message |-> <<>>]
      [] kind = "not_found"  -> [status |-> 404, remaining |-> "1", reset |-> <<>>, message |-> <<"Not", "Found">>]

\* The segments of an endpoint: its tokens between the slashes.
Segments(endpoint) == FilterSeq(endpoint, {endpoint[i] : i \in 1..Len(endpoint)} \ {"/"})

\* String.prototype.toLowerCase on the names and topics of the model
ToLowerCase(x) ==
    CASE x = "Bimbel-Alfa" -> "bimbel-alfa"
      [] x = "Portfolio"   -> "portfolio"
      [] x = "React"       -> "react"
      [] x = "Featured"    -> "featured"
      [] OTHER             -> x

\* GitHub resolves the repository of a path without regard to case.
UpRepoExists(world, name) == \E i \in 1..Len(world) : ToLowerCase(world[i].name) = ToLowerCase(name)

UpRepoNamed(world, name) ==
    world[CHOOSE i \in 1..Len(world) : ToLowerCase(world[i].name) = ToLowerCase(name)]

\* GET /users/{owner}/repos?sort=updated&per_page=n : the first page, newest update first.
UpstreamList(world, perPage) ==
    Slice(SortDescending(world, [i \in 1..Len(world) |-> world[i].updated_at]), perPage)

\* What upstream serves for an endpoint when it does not fail: GitHub routes
\* /repos/{owner}/{repo} and /repos/{owner}/{repo}/{languages|commits}, and refuses
\* them with 403 for a repository it has blocked.
UpstreamServe(world, endpoint, perPage) ==
    LET segs == Segments(endpoint)
        notFound == [status |-> 404, remaining |-> "1", reset |-> <<>>, message |-> <<"Not", "Found">>,
                     body |-> NullObject]
        ok(body) == [status |-> 200, remaining |-> "1", reset |-> <<>>, message |-> <<>>, body |-> body]
    IN  IF Len(segs) = 3 /\ segs[1] = "users" /\ <<segs[2]>> = USERNAME /\ segs[3] = "repos"
        THEN ok(UpstreamList(world, perPage))
        ELSE IF Len(segs) \in {3, 4} /\ segs[1] = "repos" /\ <<segs[2]>> = USERNAME
                /\ UpRepoExists(world, segs[3])
        THEN LET r == UpRepoNamed(world, segs[3])
             IN  IF r.blocked
                 THEN [status |-> 403, remaining |-> "1", reset |-> <<>>,
                       message |-> <<"Repository", "access", "blocked">>, body |-> NullObject]
                 ELSE IF Len(segs) = 3 THEN ok(r)
                 ELSE IF segs[4] = "languages" THEN ok(r.languages)
                 ELSE IF segs[4] = "commits" THEN ok(Slice(r.commits, perPage))
                 ELSE notFound
        ELSE notFound

\* The HTTP exchange of one call of class cls under the faults f.
Upstream(world, f, cls, endpoint, perPage) ==
    IF f[cls] = "none" THEN UpstreamServe(world, endpoint, perPage)
    ELSE [status |-> FaultResponse(f[cls]).status,
          remaining |-> FaultResponse(f[cls]).remaining,
          reset |-> FaultResponse(f[cls]).reset,
          message |-> FaultResponse(f[cls]).message,
          body |-> NullObject]

-----------------------------------------------------------------------------
(* Upstream client: lib/axios-config.ts *)

PerPageList == 100
HttpNotFound == 404
HttpTooManyRequests == 429

NoError == [status |-> -1, message |-> <<>>, resetTime |-> Undefined]

\* resetTime ? new Date(parseInt(resetTime) * 1000) : null, the date in milliseconds
ResetDate(reset) ==
    IF reset = <<>> THEN JsNull
    ELSE IF ParseInt(reset).kind = "number" THEN Num(ParseInt(reset).n * 1000)
    ELSE NaN

\* githubApiClient.interceptors.response: the error a failed exchange is rejected with
\* (resetTime is undefined on the errors it is not set on).
ResponseInterceptor(resp) ==
    IF resp.status = 0
    THEN [status |-> 0,
          message |-> <<"Network", "error", "-", "unable", "to", "connect", "to", "GitHub", "API">>,
          resetTime |-> Undefined]
    ELSE IF resp.status = 403 /\ resp.remaining = "0"
    THEN [status |-> HttpTooManyRequests, message |-> <<"GitHub", "API", "rate", "limit", "exceeded">>,
          resetTime |-> ResetDate(resp.reset)]
    ELSE IF resp.status = HttpNotFound
    THEN [status |-> HttpNotFound, message |-> <<"Resource", "not", "found">>, resetTime |-> Undefined]
    ELSE IF resp.status >= 500
    THEN [status |-> resp.status, message |-> <<"GitHub", "API", "server", "error">>,
          resetTime |-> Undefined]
    ELSE [status |-> resp.status,
          message |-> IF resp.message # <<>> THEN resp.message ELSE <<"HTTP", "error">>,
          resetTime |-> Undefined]

\* An exchange with upstream fails and the interceptor rejects the request.
RI_Reject(exchange) ==
    /\ riPc = "idle"
    /\ riPc' = "rejected"
    /\ riExchange' = exchange
    /\ riError' = ResponseInterceptor(exchange)
    /\ UNCHANGED <<varsUp, OtherThanInterceptor>>

InterceptorIdle ==
    /\ riPc = "idle"
    /\ riExchange = NullObject
    /\ riError = NoError

\* githubApiRequest: response.data, or the interceptor's error rethrown.
githubApiRequest(world, f, cls, endpoint, perPage) ==
    LET resp == Upstream(world, f, cls, endpoint, perPage)
    IN  IF resp.status = 200
        THEN [ok |-> TRUE, data |-> resp.body, error |-> NoError]
        ELSE [ok |-> FALSE, data |-> NullObject, error |-> ResponseInterceptor(resp)]

createUserEndpoint(path) == <<"/", "users", "/">> \o USERNAME \o path

createRepoEndpoint(repoName, path) == <<"/", "repos", "/">> \o USERNAME \o <<"/">> \o repoName \o path

-----------------------------------------------------------------------------
(* Fetchers: lib/github-utils.ts *)

\* The alternative in which a failed listing is not turned into []: the repositories
\* of the account are returned as if the call had been served
fetchUserRepositoriesDespiteFailure(world, f) ==
    LET served == UpstreamList(world, PerPageList)
        kept == FilterSeq(served, {x \in {served[i] : i \in 1..Len(served)} : ~x.archived /\ ~x.disabled})
    IN  SortDescending(kept, [i \in 1..Len(kept) |-> kept[i].updated_at])

\* The alternative in which the filter tests archived alone
fetchUserRepositoriesKeepingDisabled(world, f) ==
    LET r == githubApiRequest(world, f, "list", createUserEndpoint(<<"/", "repos">>), PerPageList)
    IN  IF ~r.ok THEN <<>>
        ELSE LET kept == FilterSeq(r.data, {x \in {r.data[i] : i \in 1..Len(r.data)} : ~x.archived})
             IN  SortDescending(kept, [i \in 1..Len(kept) |-> kept[i].updated_at])

\* The alternative in which the pages after the first are requested as well
fetchUserRepositoriesEveryPage(world, f) ==
    LET r == githubApiRequest(world, f, "list", createUserEndpoint(<<"/", "repos">>), Len(world))
    IN  IF ~r.ok THEN <<>>
        ELSE LET kept == FilterSeq(r.data, {x \in {r.data[i] : i \in 1..Len(r.data)} : ~x.archived /\ ~x.disabled})
             IN  SortDescending(kept, [i \in 1..Len(kept) |-> kept[i].updated_at])

\* fetchUserRepositories: the listing without archived and disabled repositories,
\* newest update first; [] when the call fails.
fetchUserRepositories(world, f) ==
    LET r == githubApiRequest(world, f, "list", createUserEndpoint(<<"/", "repos">>), PerPageList)
    IN  IF ~r.ok THEN <<>>
        ELSE LET kept == FilterSeq(r.data, {x \in {r.data[i] : i \in 1..Len(r.data)} :
                                               ~x.archived /\ ~x.disabled})
             IN  SortDescending(kept, [i \in 1..Len(kept) |-> kept[i].updated_at])

\* The alternative in which the error of a failed lookup is handed on in place of null
fetchRepositoryDetailsOrError(world, f, repoName) ==
    LET r == githubApiRequest(world, f, "details", createRepoEndpoint(repoName, <<>>), Null)
    IN  IF r.ok THEN r.data ELSE r.error

\* fetchRepositoryDetails: the repository, or null on any failure.
fetchRepositoryDetails(world, f, repoName) ==
    LET r == githubApiRequest(world, f, "details", createRepoEndpoint(repoName, <<>>), Null)
    IN  IF r.ok THEN r.data ELSE NullObject

\* fetchRepositoryLanguages: the breakdown, or {} on any failure.
fetchRepositoryLanguages(world, f, repoName) ==
    LET r == githubApiRequest(world, f, "languages", createRepoEndpoint(repoName, <<"/", "languages">>), Null)
    IN  IF r.ok THEN r.data ELSE <<>>

\* fetchRepositoryCommits: at most limit commits, or [] on any failure.
fetchRepositoryCommits(world, f, repoName, limit) ==
    LET r == githubApiRequest(world, f, "commits", createRepoEndpoint(repoName, <<"/", "commits">>), limit)
    IN  IF r.ok THEN Slice(r.data, limit) ELSE <<>>

-----------------------------------------------------------------------------
(* getGitHubStats: lib/github-utils.ts *)

TopLanguages == 10
ActivityRepos == 5
ActivityPerRepo == 3
ActivityFeed == 10

\* The alternative in which a later breakdown's count replaces the count so far
AddLanguageOverwriting(counts, entry) ==
    IF \E i \in 1..Len(counts) : counts[i].language = entry.language
    THEN [i \in 1..Len(counts) |-> IF counts[i].language = entry.language THEN entry ELSE counts[i]]
    ELSE Append(counts, entry)

\* languageCounts[language] = (languageCounts[language] || 0) + bytes: an existing key
\* keeps its place, a new key goes last.
AddLanguage(counts, entry) ==
    IF \E i \in 1..Len(counts) : counts[i].language = entry.language
    THEN [i \in 1..Len(counts) |->
            IF counts[i].language = entry.language
            THEN [language |-> entry.language, bytes |-> counts[i].bytes + entry.bytes]
            ELSE counts[i]]
    ELSE Append(counts, entry)

\* Object.entries(languages).forEach(...) of one repository's breakdown
RECURSIVE MergeLanguages(_, _)
MergeLanguages(counts, languages) ==
    IF languages = <<>> THEN counts
    ELSE MergeLanguages(AddLanguage(counts, Head(languages)), Tail(languages))

\* The alternative in which the total is taken over the ranked entries alone
MostUsedLanguagesOfRankedTotal(counts) ==
    LET ranked == Slice(SortDescending(counts, [i \in 1..Len(counts) |-> counts[i].bytes]), TopLanguages)
        totalLanguageBytes == SumSeq([i \in 1..Len(ranked) |-> ranked[i].bytes])
    IN  [i \in 1..Len(ranked) |->
            [language |-> ranked[i].language,
             count |-> ranked[i].bytes,
             percentage |-> IF totalLanguageBytes > 0
                            THEN [num |-> ranked[i].bytes * 100, den |-> totalLanguageBytes]
                            ELSE [num |-> 0, den |-> 1]]]

\* The ranked language list: percentage is the exact ratio num / den (0 when den is 0).
MostUsedLanguagesOf(counts) ==
    LET totalLanguageBytes == SumSeq([i \in 1..Len(counts) |-> counts[i].bytes])
        mapped == [i \in 1..Len(counts) |->
                     [language |-> counts[i].language,
                      count |-> counts[i].bytes,
                      percentage |-> IF totalLanguageBytes > 0
                                     THEN [num |-> counts[i].bytes * 100, den |-> totalLanguageBytes]
                                     ELSE [num |-> 0, den |-> 1]]]
    IN  Slice(SortDescending(mapped, [i \in 1..Len(mapped) |-> mapped[i].count]), TopLanguages)

\* The alternative in which the flattened arrays are cut without being sorted
RecentActivityOfUnsorted(arrays) == Slice(Flat(arrays), ActivityFeed)

\* The activity feed of the resolved commit arrays
RecentActivityOf(arrays) ==
    LET flat == Flat(arrays)
    IN  Slice(SortDescending(flat, [i \in 1..Len(flat) |-> flat[i].date]), ActivityFeed)

EmptyStats ==
    [totalRepositories |-> 0, totalStars |-> 0, totalForks |-> 0, totalCommits |-> 0,
     mostUsedLanguages |-> <<>>, recentActivity |-> <<>>, repositories |-> <<>>]

\* getGitHubStats is called: the repository listing is awaited.
GS_Call ==
    /\ gsPc = "idle"
    /\ gsPc' = "list"
    /\ UNCHANGED <<varsUp, OtherThanStats, repositories, languageCounts, langPending, recentCommitsArrays,
                   commitPending, mostUsedLanguages, gsResult>>

\* The listing resolves; repositories.map(async ...) starts one language fetch per repository.
GS_ListResolved ==
    /\ gsPc = "list"
    /\ repositories' = fetchUserRepositories(up, fault)
    /\ languageCounts' = <<>>
    /\ langPending' = 1..Len(repositories')
    /\ gsPc' = "languages"
    /\ UNCHANGED <<varsUp, OtherThanStats, recentCommitsArrays, commitPending, mostUsedLanguages, gsResult>>

\* One language fetch resolves and its callback merges the breakdown into languageCounts.
GS_LanguagesResolved(i) ==
    /\ gsPc = "languages"
    /\ i \in langPending
    /\ languageCounts' = MergeLanguages(languageCounts,
                            fetchRepositoryLanguages(up, fault, <<repositories[i].name>>))
    /\ langPending' = langPending \ {i}
    /\ UNCHANGED <<varsUp, OtherThanStats, gsPc, repositories, recentCommitsArrays, commitPending,
                   mostUsedLanguages, gsResult>>

\* Promise.all(languagePromises) resolves: the ranking is computed and the commit
\* fetches of repositories.slice(0, 5) start.
GS_LanguagesJoined ==
    /\ gsPc = "languages"
    /\ langPending = {}
    /\ mostUsedLanguages' = MostUsedLanguagesOf(languageCounts)
    /\ commitPending' = 1..Min(ActivityRepos, Len(repositories))
    /\ recentCommitsArrays' = [i \in 1..Min(ActivityRepos, Len(repositories)) |-> Pending]
    /\ gsPc' = "commits"
    /\ UNCHANGED <<varsUp, OtherThanStats, repositories, languageCounts, langPending, gsResult>>

\* One commit fetch resolves into its own slot of the Promise.all array.
GS_CommitsResolved(i) ==
    /\ gsPc = "commits"
    /\ i \in commitPending
    /\ recentCommitsArrays' = [recentCommitsArrays EXCEPT
            ![i] = Resolved(fetchRepositoryCommits(up, fault, <<repositories[i].name>>, ActivityPerRepo))]
    /\ commitPending' = commitPending \ {i}
    /\ UNCHANGED <<varsUp, OtherThanStats, gsPc, repositories, languageCounts, langPending,
                   mostUsedLanguages, gsResult>>

\* Promise.all(recentCommitsPromises) resolves and the stats are returned.
GS_Return ==
    /\ gsPc = "commits"
    /\ commitPending = {}
    /\ LET recentActivity == RecentActivityOf([i \in 1..Len(recentCommitsArrays) |->
                                                  recentCommitsArrays[i].value])
       IN  gsResult' =
             [totalRepositories |-> Len(repositories),
              totalStars |-> SumSeq([i \in 1..Len(repositories) |-> repositories[i].stargazers_count]),
              totalForks |-> SumSeq([i \in 1..Len(repositories) |-> repositories[i].forks_count]),
              totalCommits |-> Len(recentActivity),
              mostUsedLanguages |-> mostUsedLanguages,
              recentActivity |-> recentActivity,
              repositories |-> repositories]
    /\ gsPc' = "done"
    /\ UNCHANGED <<varsUp, OtherThanStats, repositories, languageCounts, langPending, recentCommitsArrays,
                   commitPending, mostUsedLanguages>>

\* GET /api/github/stats answers. getGitHubStats throws nothing (its own try/catch
\* returns the zero stats), so the handler's catch block is entered with no exception of it.
ST_Respond ==
    /\ gsPc = "done"
    /\ gsPc' = "responded"
    /\ LET outcome == [threw |-> FALSE, value |-> gsResult]
       IN  stResponse' =
             IF outcome.threw THEN Json(500, FALSE, "Failed to fetch GitHub statistics", NullObject)
             ELSE Json(200, TRUE, "", outcome.value)
    /\ UNCHANGED <<varsUp, varsRoute, varsClient, varsCatalog, varsFilters, varsPages, varsInterceptor, varsFetcher, repositories,
                   languageCounts, langPending, recentCommitsArrays, commitPending, mostUsedLanguages,
                   gsResult>>

StatsIdle ==
    /\ stResponse = NullObject
    /\ gsPc = "idle"
    /\ repositories = <<>>
    /\ languageCounts = <<>>
    /\ langPending = {}
    /\ recentCommitsArrays = <<>>
    /\ commitPending = {}
    /\ mostUsedLanguages = <<>>
    /\ gsResult = NullObject

-----------------------------------------------------------------------------
(* getRepositoryStats (lib/github-utils.ts) and GET /api/github/repos/[repo]
   (app/api/github/repos/[repo]/route.ts) *)

RecentCommitsLimit == 5

\* Bounds of the client's clock and of its log of round trips
MaxRoundTrips == 3
TickSeconds == 900
MaxClock == 3600

SubFetches == <<"details", "languages", "commits">>

\* s.includes(sub): sub occurs in s as a run of consecutive tokens
Includes(s, sub) ==
    \E i \in 0..(Len(s) - Len(sub)) : SubSeq(s, i + 1, i + Len(sub)) = sub

\* s.trim() === ""
IsBlank(s) == \A i \in 1..Len(s) : s[i] = " "

\* The alternative in which the first key of the breakdown is taken as it stands
PrimaryLanguageFirstKey(languages) ==
    IF Len(languages) > 0 THEN languages[1].language ELSE Null

\* Object.entries(languages).sort(([, a], [, b]) => b - a)[0][0], or null when no bytes
PrimaryLanguage(languages) ==
    LET totalBytes == SumSeq([i \in 1..Len(languages) |-> languages[i].bytes])
    IN  IF totalBytes > 0
        THEN SortDescending(languages, [i \in 1..Len(languages) |-> languages[i].bytes])[1].language
        ELSE Null

\* The alternative in which a missing language breakdown or commit history makes the
\* stats null as a missing repository does
RepositoryStatsOrNull(repoDetails, languages, commits) ==
    IF repoDetails = NullObject \/ languages = <<>> \/ commits = <<>> THEN NullObject
    ELSE [stars |-> repoDetails.stargazers_count,
          forks |-> repoDetails.forks_count,
          issues |-> repoDetails.open_issues_count,
          watchers |-> repoDetails.watchers_count,
          size |-> repoDetails.size,
          language |-> PrimaryLanguage(languages),
          languages |-> languages,
          lastUpdated |-> repoDetails.updated_at,
          createdAt |-> repoDetails.created_at,
          recentCommits |-> commits]

\* The value getRepositoryStats returns once its three sub-fetches have resolved
RepositoryStatsOf(repoDetails, languages, commits) ==
    IF repoDetails = NullObject THEN NullObject
    ELSE [stars |-> repoDetails.stargazers_count,
          forks |-> repoDetails.forks_count,
          issues |-> repoDetails.open_issues_count,
          watchers |-> repoDetails.watchers_count,
          size |-> repoDetails.size,
          language |-> PrimaryLanguage(languages),
          languages |-> languages,
          lastUpdated |-> repoDetails.updated_at,
          createdAt |-> repoDetails.created_at,
          recentCommits |-> commits]

\* The value one sub-fetch of getRepositoryStats(repoName) resolves to
SubFetchValue(world, f, k, repoName) ==
    CASE k = "details"   -> fetchRepositoryDetails(world, f, repoName)
      [] k = "languages" -> fetchRepositoryLanguages(world, f, repoName)
      [] k = "commits"   -> fetchRepositoryCommits(world, f, repoName, RecentCommitsLimit)

\* The endpoint one sub-fetch of getRepositoryStats(repoName) requests
SubFetchEndpoint(k, repoName) ==
    CASE k = "details"   -> createRepoEndpoint(repoName, <<>>)
      [] k = "languages" -> createRepoEndpoint(repoName, <<"/", "languages">>)
      [] k = "commits"   -> createRepoEndpoint(repoName, <<"/", "commits">>)

\* The route's fullRepoName: a bare name gets the owner prefix
FullRepoName(repo) ==
    IF ~Includes(repo, <<"/">>) THEN <<"Cyrochrome", "/">> \o repo ELSE repo

\* The sub-fetches the array literal of Promise.all starts before the await
SubFetchSet == {SubFetches[i] : i \in 1..Len(SubFetches)}

\* The alternative in which the fetches are awaited one after the other: only the first
\* is started before a result arrives
StartedOneByOne == {SubFetches[1]}

StartedByPromiseAll == SubFetchSet

\* The handler's catch block: the response for an exception with the given message
RouteCatch(message) ==
    IF Includes(message, <<"fetch">>) THEN Json(503, FALSE, "Network error", NullObject)
    ELSE IF Includes(message, <<"rate", "limit">>) THEN Json(429, FALSE, "Rate limit exceeded", NullObject)
    ELSE Json(500, FALSE, "Internal server error", NullObject)

\* getRepositoryStats(repoName) evaluates the three fetch calls of its Promise.all, each
\* up to its first await: all three requests are out before anything resolves.
StartRepositoryStats(repoName) ==
    /\ rsRepoName' = repoName
    /\ rsStarted' = StartedByPromiseAll
    /\ rsEndpoints' = {SubFetchEndpoint(k, repoName) : k \in StartedByPromiseAll}
    /\ rsSlots' = [k \in SubFetchSet |-> Pending]

\* GET /api/github/repos/[repo] arrives with the path parameter repo: it is validated,
\* completed with the owner, and getRepositoryStats is called.
RT_Request(repo) ==
    /\ rtPc = "idle"
    /\ repoParam' = repo
    /\ rsCaller' = "route"
    /\ IF repo = <<>> \/ IsBlank(repo)
       THEN /\ rtResponse' = Json(400, FALSE, "Repository name is required", NullObject)
            /\ rtPc' = "done"
            /\ UNCHANGED <<rsRepoName, rsStarted, rsSlots, rsEndpoints>>
       ELSE IF ~Includes(FullRepoName(repo), <<"/">>)
       THEN /\ rtResponse' = Json(400, FALSE, "Invalid repository format", NullObject)
            /\ rtPc' = "done"
            /\ UNCHANGED <<rsRepoName, rsStarted, rsSlots, rsEndpoints>>
       ELSE /\ StartRepositoryStats(FullRepoName(repo))
            /\ rtPc' = "fetching"
            /\ UNCHANGED rtResponse
    /\ UNCHANGED <<varsUp, OtherThanRoute, rsOrder, rsResult>>

\* getRepositoryStats is called with the name of a repository, as getEnhancedProjects
\* calls it with the name taken from a project's githubUrl.
RS_Call(repoName) ==
    /\ rtPc = "idle"
    /\ rsCaller' = "catalog"
    /\ StartRepositoryStats(repoName)
    /\ rtPc' = "fetching"
    /\ UNCHANGED <<varsUp, OtherThanRoute, repoParam, rsOrder, rsResult, rtResponse>>

\* One sub-fetch resolves into its own slot.
RS_Resolved(k) ==
    /\ rtPc = "fetching"
    /\ k \in rsStarted
    /\ ~rsSlots[k].resolved
    /\ rsSlots' = [rsSlots EXCEPT ![k] = Resolved(SubFetchValue(up, fault, k, rsRepoName))]
    /\ rsOrder' = Append(rsOrder, k)
    /\ UNCHANGED <<varsUp, OtherThanRoute, repoParam, rsCaller, rsRepoName, rtPc, rsStarted,
                   rsEndpoints, rsResult, rtResponse>>

\* Promise.all resolves and getRepositoryStats returns.
RS_Return ==
    /\ rtPc = "fetching"
    /\ \A k \in SubFetchSet : rsSlots[k].resolved
    /\ rsResult' = RepositoryStatsOf(rsSlots["details"].value, rsSlots["languages"].value,
                                     rsSlots["commits"].value)
    /\ rtPc' = "returned"
    /\ UNCHANGED <<varsUp, OtherThanRoute, repoParam, rsCaller, rsRepoName, rsStarted, rsSlots,
                   rsOrder, rsEndpoints, rtResponse>>

\* The handler answers. getRepositoryStats throws nothing (its own try/catch turns any
\* exception into null), so the handler's catch block is entered with no exception of it.
RT_Respond ==
    /\ rtPc = "returned"
    /\ rsCaller = "route"
    /\ LET outcome == [threw |-> FALSE, message |-> <<>>, value |-> rsResult]
       IN  rtResponse' =
             IF outcome.threw THEN RouteCatch(outcome.message)
             ELSE IF outcome.value = NullObject
             THEN Json(404, FALSE, "Repository not found or inaccessible", NullObject)
             ELSE Json(200, TRUE, "", outcome.value)
    /\ rtPc' = "done"
    /\ UNCHANGED <<varsUp, OtherThanRoute, repoParam, rsCaller, rsRepoName, rsStarted, rsSlots,
                   rsOrder, rsEndpoints, rsResult>>

RouteIdle ==
    /\ repoParam = <<>>
    /\ rtPc = "idle"
    /\ rsCaller = ""
    /\ rsRepoName = <<>>
    /\ rsStarted = {}
    /\ rsSlots = <<>>
    /\ rsOrder = <<>>
    /\ rsEndpoints = {}
    /\ rsResult = NullObject
    /\ rtResponse = NullObject

-----------------------------------------------------------------------------
(* The upstream client over time: githubApiRequest as the fetchers call it.
   githubApiRequest takes a revalidate option, reads it nowhere, and keeps no
   cache: githubApiClient.request goes to the network on every call. *)

\* The request a fetcher of class cls makes for repoName: endpoint and query parameters
RequestKey(cls, repoName) ==
    CASE cls = "list"      -> [endpoint |-> createUserEndpoint(<<"/", "repos">>), per_page |-> PerPageList]
      [] cls = "details"   -> [endpoint |-> createRepoEndpoint(repoName, <<>>), per_page |-> 0]
      [] cls = "languages" -> [endpoint |-> createRepoEndpoint(repoName, <<"/", "languages">>), per_page |-> 0]
      [] cls = "commits"   -> [endpoint |-> createRepoEndpoint(repoName, <<"/", "commits">>), per_page |-> RecentCommitsLimit]

\* A fetcher calls githubApiRequest: one round trip to upstream.
CL_Request(cls, repoName) ==
    /\ Len(roundTrips) < MaxRoundTrips
    /\ roundTrips' = Append(roundTrips, [key |-> RequestKey(cls, repoName), class |-> cls, at |-> now])
    /\ UNCHANGED <<varsUp, OtherThanClient, now>>

\* Time passes.
CL_Tick ==
    /\ now + TickSeconds <= MaxClock
    /\ now' = now + TickSeconds
    /\ UNCHANGED <<varsUp, OtherThanClient, roundTrips>>

ClientIdle ==
    /\ now = 0
    /\ roundTrips = <<>>

-----------------------------------------------------------------------------
(* The project catalog: lib/projects-utils.ts *)

GithubUrl(name) == <<"https:", "/", "/", "github.com", "/", "Cyrochrome", "/", name>>

StaticProject(id, name, priority) ==
    [id |-> id, title |-> id, description |-> id, technologies |-> <<"TypeScript">>,
     githubUrl |-> GithubUrl(name), featured |-> TRUE, priority |-> Num(priority)]

STATIC_PROJECTS ==
    << StaticProject("portfolio-marcel", "portofolio-marcel", 1),
       StaticProject("nuxt-gemini-chatbot", "nuxt-gemini-chatbot", 2),
       StaticProject("bimbel-alfa", "bimbel-alfa", 3) >>

DefaultPriority == 999
DefaultLimit == 10
FeaturedLimit == 6
RecentMaxAge == 90
MaxTechTopics == 4

\* new URL(project.githubUrl).pathname.split("/").filter(Boolean)[1] || null
getRepoNameFromProject(project) ==
    IF "githubUrl" \notin DOMAIN project THEN Null
    ELSE LET url == project.githubUrl
             wellFormed == Len(url) >= 4 /\ SubSeq(url, 1, 3) = <<"https:", "/", "/">>
             pathParts == IF wellFormed THEN Segments(SubSeq(url, 5, Len(url))) ELSE <<>>
         IN  IF Len(pathParts) >= 2 /\ pathParts[2] # "" THEN pathParts[2] ELSE Null

\* processProjectsForDisplay: the featured entries, sorted by (a.priority || 999) - (b.priority || 999)
processProjectsForDisplay(projects) ==
    LET featured == FilterSeq(projects, {x \in {projects[i] : i \in 1..Len(projects)} : x.featured})
    IN  SortAscending(featured, [i \in 1..Len(featured) |->
            IF Truthy(Get(featured[i], "priority")) THEN featured[i].priority.n ELSE DefaultPriority])

\* The day the request is served, in days; timestamps of the catalog are days too
Today == 100

\* String.prototype.includes on the topics of the model
StrIncludes(a, b) == a = b \/ b = "" \/ <<a, b>> \in {<<"reactjs", "react">>, <<"featured", "feat">>}

\* repoTopic.toLowerCase().includes(topic.toLowerCase()) for some topic of the repository
HasTopicLike(repo, topic) ==
    \E i \in 1..Len(repo.topics) : StrIncludes(ToLowerCase(repo.topics[i]), ToLowerCase(topic))

\* a.name.localeCompare(b.name) as the rank of the name among the names of the model
NameRank(name) ==
    LET order == <<"alpha", "beta", "bimbel-alfa", "Bimbel-Alfa", "delta", "gamma", "nuxt-gemini-chatbot",
                   "portofolio-marcel">>
    IN  IF \E i \in 1..Len(order) : order[i] = name
        THEN CHOOSE i \in 1..Len(order) : order[i] = name
        ELSE Len(order) + 1

\* The elements of an array
Elems(s) == {s[i] : i \in 1..Len(s)}

\* if (filters.limit) filtered = filtered.slice(0, filters.limit)
ApplyLimit(filtered, filters) ==
    IF Truthy(Get(filters, "limit")) THEN SliceTo(filtered, filters["limit"].n) ELSE filtered

\* The alternative in which sortBy is not read and the sort is by update time
SortRepositoriesByUpdated(filtered, filters) ==
    LET sortOrder == IF Truthy(Get(filters, "sortOrder")) THEN filters["sortOrder"].s ELSE "desc"
        keys == [i \in 1..Len(filtered) |-> filtered[i].updated_at]
    IN  IF sortOrder = "asc" THEN SortAscending(filtered, keys) ELSE SortDescending(filtered, keys)

\* The sort of applyProjectFilters: by sortBy (default updated), sortOrder (default desc)
SortRepositories(filtered, filters) ==
    LET sortBy == IF Truthy(Get(filters, "sortBy")) THEN filters["sortBy"].s ELSE "updated"
        sortOrder == IF Truthy(Get(filters, "sortOrder")) THEN filters["sortOrder"].s ELSE "desc"
        key(r) == CASE sortBy = "stars"   -> r.stargazers_count
                    [] sortBy = "updated" -> r.updated_at
                    [] sortBy = "created" -> r.created_at
                    [] sortBy = "name"    -> NameRank(r.name)
                    [] OTHER              -> 0
        keys == [i \in 1..Len(filtered) |-> key(filtered[i])]
    IN  IF sortOrder = "asc" THEN SortAscending(filtered, keys) ELSE SortDescending(filtered, keys)

\* The alternative in which archived repositories are excluded only when excludeArchived
\* is set, not whenever it is other than false
FilterRepositoriesWhenSet(repos, filters) ==
    LET notArchived(r) == ~r.archived
        notFork(r) == ~r.fork
        enoughStars(r) == r.stargazers_count >= filters["minStars"].n
        enoughForks(r) == r.forks_count >= filters["minForks"].n
        recent(r) == r.updated_at >= Today - filters["maxAge"].n
        required(r) == \E t \in 1..Len(filters["requiredTopics"].items) :
                            HasTopicLike(r, filters["requiredTopics"].items[t])
        notExcluded(r) == ~\E t \in 1..Len(filters["excludeTopics"].items) :
                            HasTopicLike(r, filters["excludeTopics"].items[t])
        keep(r) ==
            /\ Truthy(Get(filters, "excludeArchived")) => notArchived(r)
            /\ Truthy(Get(filters, "excludeForks")) => notFork(r)
            /\ Truthy(Get(filters, "minStars")) => enoughStars(r)
            /\ Truthy(Get(filters, "minForks")) => enoughForks(r)
            /\ Truthy(Get(filters, "maxAge")) => recent(r)
            /\ Truthy(Get(filters, "requiredTopics")) /\ Len(filters["requiredTopics"].items) > 0
                  => required(r)
            /\ Truthy(Get(filters, "excludeTopics")) /\ Len(filters["excludeTopics"].items) > 0
                  => notExcluded(r)
    IN  FilterSeq(repos, {r \in Elems(repos) : keep(r)})

\* The filters of applyProjectFilters, before the sort and the limit: each is a filter
\* of the list the one before it left, so a repository is kept when it passes them all
FilterRepositories(repos, filters) ==
    LET notArchived(r) == ~r.archived
        notFork(r) == ~r.fork
        enoughStars(r) == r.stargazers_count >= filters["minStars"].n
        enoughForks(r) == r.forks_count >= filters["minForks"].n
        recent(r) == r.updated_at >= Today - filters["maxAge"].n
        required(r) == \E t \in 1..Len(filters["requiredTopics"].items) :
                            HasTopicLike(r, filters["requiredTopics"].items[t])
        notExcluded(r) == ~\E t \in 1..Len(filters["excludeTopics"].items) :
                            HasTopicLike(r, filters["excludeTopics"].items[t])
        keep(r) ==
            /\ Get(filters, "excludeArchived") # Bool(FALSE) => notArchived(r)
            /\ Truthy(Get(filters, "excludeForks")) => notFork(r)
            /\ Truthy(Get(filters, "minStars")) => enoughStars(r)
            /\ Truthy(Get(filters, "minForks")) => enoughForks(r)
            /\ Truthy(Get(filters, "maxAge")) => recent(r)
            /\ Truthy(Get(filters, "requiredTopics")) /\ Len(filters["requiredTopics"].items) > 0
                  => required(r)
            /\ Truthy(Get(filters, "excludeTopics")) /\ Len(filters["excludeTopics"].items) > 0
                  => notExcluded(r)
    IN  FilterSeq(repos, {r \in Elems(repos) : keep(r)})

applyProjectFilters(repos, filters) ==
    ApplyLimit(SortRepositories(FilterRepositories(repos, filters), filters), filters)

\* The alternative in which the filters and the sort work on the argument itself: when
\* no filter replaces the array, the in-place sort reorders the caller's array
ArgumentSortedInPlace(repos, filters) ==
    IF FilterRepositories(repos, filters) = repos THEN SortRepositories(repos, filters) ELSE repos

\* let filtered = [...repositories]: the filters and the in-place sort work on a copy,
\* so the caller's array is as it was
ArgumentAfter(repos, filters) == repos

\* A caller hands applyProjectFilters an array of repositories and filters.
AF_Call(repos, filters) ==
    /\ afPc = "idle"
    /\ afPc' = "returned"
    /\ afFilters' = filters
    /\ afInput' = ArgumentAfter(repos, filters)
    /\ afResult' = applyProjectFilters(repos, filters)
    /\ UNCHANGED <<varsUp, OtherThanFilters>>

FiltersIdle ==
    /\ afPc = "idle"
    /\ afFilters = <<>>
    /\ afInput = <<>>
    /\ afResult = <<>>

GenericTopics == {"portfolio", "personal", "learning", "practice", "example"}

convertGitHubRepoToProject(repo) ==
    LET techOnly(t) == ToLowerCase(t) \notin GenericTopics
        techTopics == Slice(FilterSeq(repo.topics, {r \in Elems(repo.topics) : techOnly(r)}), MaxTechTopics)
    IN  [id |-> repo.name,
         title |-> repo.name,
         description |-> IF repo.description # Null /\ repo.description # ""
                         THEN repo.description
                         ELSE <<repo.name, " - A ", IF repo.language # Null THEN repo.language ELSE "software",
                                " project showcasing development skills and techniques.">>,
         technologies |-> (IF repo.language # Null THEN <<repo.language>> ELSE <<>>) \o techTopics,
         githubUrl |-> repo.html_url,
         featured |-> (repo.stargazers_count > 0
                       \/ \E i \in 1..Len(repo.topics) : repo.topics[i] = "featured"),
         priority |-> Num(repo.stargazers_count * 10 + repo.forks_count * 5)]

DefaultFilters ==
    [excludeArchived |-> Bool(TRUE), excludeForks |-> Bool(FALSE), minStars |-> Num(0),
     sortBy |-> Str("updated"), sortOrder |-> Str("desc"), limit |-> Num(DefaultLimit)]

\* No filters argument: the spread of undefined adds nothing
NoFilters == [k \in {} |-> Undefined]

\* getDynamicProjects(filters) on the repositories fetchUserRepositories returned
getDynamicProjects(githubRepos, filters) ==
    IF Len(githubRepos) = 0 THEN <<>>
    ELSE CHOOSE projects \in
            { [i \in 1..Len(filteredRepos) |-> convertGitHubRepoToProject(filteredRepos[i])]
              : filteredRepos \in {applyProjectFilters(githubRepos, Spread(DefaultFilters, filters))} } : TRUE

\* The alternative in which getFeaturedProjects has no static fallback
getFeaturedProjectsWithoutFallback(githubRepos) ==
    getDynamicProjects(githubRepos,
        [minStars |-> Num(1), excludeForks |-> Bool(FALSE), sortBy |-> Str("stars"),
         sortOrder |-> Str("desc"), limit |-> Num(FeaturedLimit)])

\* The alternative in which the featured list is cut at the default limit of
\* getDynamicProjects
getFeaturedProjectsAtDefaultLimit(githubRepos) ==
    CHOOSE projects \in
        { IF Len(dynamicProjects) > 0
          THEN [i \in 1..Len(dynamicProjects) |->
                  [dynamicProjects[i] EXCEPT !.featured = TRUE,
                                             !.priority = Num((Len(dynamicProjects) - (i - 1)) * 10)]]
          ELSE STATIC_PROJECTS
          : dynamicProjects \in
              {getDynamicProjects(githubRepos,
                  [minStars |-> Num(1), excludeForks |-> Bool(FALSE), sortBy |-> Str("stars"),
                   sortOrder |-> Str("desc")])} } : TRUE

getFeaturedProjects(githubRepos) ==
    CHOOSE projects \in
        { IF Len(dynamicProjects) > 0
          THEN [i \in 1..Len(dynamicProjects) |->
                  [dynamicProjects[i] EXCEPT !.featured = TRUE,
                                             !.priority = Num((Len(dynamicProjects) - (i - 1)) * 10)]]
          ELSE STATIC_PROJECTS
          : dynamicProjects \in
              {getDynamicProjects(githubRepos,
                  [minStars |-> Num(1), excludeForks |-> Bool(FALSE), sortBy |-> Str("stars"),
                   sortOrder |-> Str("desc"), limit |-> Num(FeaturedLimit)])} } : TRUE

getRecentProjects(githubRepos, limit) ==
    getDynamicProjects(githubRepos,
        [maxAge |-> Num(RecentMaxAge), sortBy |-> Str("updated"), sortOrder |-> Str("desc"),
         limit |-> limit])

getAllProjects(githubRepos) ==
    getDynamicProjects(githubRepos,
        [excludeArchived |-> Bool(TRUE), sortBy |-> Str("updated"), sortOrder |-> Str("desc")])

-----------------------------------------------------------------------------
(* The display order of the catalog *)

\* The default state of ProjectsFilterSection (no search, filter "all", sort by
\* "priority"): every entry, sorted by (a.priority || 999) - (b.priority || 999)
ProjectsFilterSection(projects) ==
    SortAscending(projects, [i \in 1..Len(projects) |->
        IF Truthy(Get(projects[i], "priority")) THEN projects[i].priority.n ELSE DefaultPriority])

\* A list of configured entries is loaded.
PD_LoadConfigured(projects) ==
    /\ pdPc = "idle"
    /\ pdPc' = "loaded"
    /\ pdRepos' = <<>>
    /\ pdProjects' = projects
    /\ UNCHANGED <<varsUp, OtherThanDisplay, pdDisplayed>>

\* The entries are converted from a list of repositories.
PD_LoadDynamic(repos) ==
    /\ pdPc = "idle"
    /\ pdPc' = "loaded"
    /\ pdRepos' = repos
    /\ pdProjects' = [i \in 1..Len(repos) |-> convertGitHubRepoToProject(repos[i])]
    /\ UNCHANGED <<varsUp, OtherThanDisplay, pdDisplayed>>

PD_Process ==
    /\ pdPc = "loaded"
    /\ pdPc' = "processed"
    /\ pdDisplayed' = processProjectsForDisplay(pdProjects)
    /\ UNCHANGED <<varsUp, OtherThanDisplay, pdRepos, pdProjects>>

PD_FilterSection ==
    /\ pdPc = "loaded"
    /\ pdPc' = "sorted"
    /\ pdDisplayed' = ProjectsFilterSection(pdProjects)
    /\ UNCHANGED <<varsUp, OtherThanDisplay, pdRepos, pdProjects>>

DisplayIdle ==
    /\ pdPc = "idle"
    /\ pdRepos = <<>>
    /\ pdProjects = <<>>
    /\ pdDisplayed = <<>>

-----------------------------------------------------------------------------
(* GET /api/projects with its type parameter *)

HttpOk == 200
\* The alternative in which the failure answer keeps the status of a success
StatusOfSuccess == HttpOk
HttpServerError == 500

\* searchParams.get(name) is a non-empty string: neither null (absent) nor ""
HasParam(query, name) == name \in DOMAIN query /\ query[name] # <<>>

\* const type = searchParams.get('type') || 'featured'
TypeOf(query) == IF HasParam(query, "type") THEN query["type"] ELSE <<"featured">>

\* const limit = parseInt(searchParams.get('limit') || '10')
LimitOf(query) == ParseInt(IF HasParam(query, "limit") THEN query["limit"] ELSE <<"1", "0">>)

\* The ProjectFilters the dynamic case builds from the query
DynamicFiltersOf(query) ==
    [limit |-> LimitOf(query),
     minStars |-> IF HasParam(query, "minStars") THEN ParseInt(query["minStars"]) ELSE Undefined,
     sortBy |-> IF "sortBy" \notin DOMAIN query THEN JsNull
                ELSE IF query["sortBy"] = <<>> THEN Str("") ELSE Str(query["sortBy"][1]),
     excludeForks |-> Bool("excludeForks" \in DOMAIN query /\ query["excludeForks"] = <<"true">>)]

\* The projects the switch on type selects, given what fetchUserRepositories returned
ProjectsOfType(query, githubRepos) ==
    LET type == TypeOf(query)
    IN  CASE type = <<"featured">> -> getFeaturedProjects(githubRepos)
          [] type = <<"recent">>   -> getRecentProjects(githubRepos, LimitOf(query))
          [] type = <<"all">>      -> getAllProjects(githubRepos)
          [] type = <<"dynamic">>  -> getDynamicProjects(githubRepos, DynamicFiltersOf(query))
          [] OTHER                 -> getFeaturedProjects(githubRepos)

ProjectsJson(status, success, data, type) ==
    [status |-> status, success |-> success, data |-> data, type |-> type, count |-> Len(data),
     error |-> IF success THEN Null ELSE "Failed to fetch projects data"]

\* The handler reads its parameters and calls the catalog, which requests the listing.
PJ_Request(query) ==
    /\ pjPc = "idle"
    /\ pjPc' = "fetching"
    /\ pjQuery' = query
    /\ UNCHANGED <<varsUp, OtherThanProjects, pjResponse>>

\* The listing resolves; the catalog function returns and the handler responds.
PJ_Respond ==
    /\ pjPc = "fetching"
    /\ pjPc' = "done"
    /\ \E githubRepos \in {fetchUserRepositories(up, fault)} :
          \E projects \in {ProjectsOfType(pjQuery, githubRepos)} :
             pjResponse' = IF Len(projects) = 0
                           THEN ProjectsJson(HttpServerError, FALSE, STATIC_PROJECTS, Null)
                           ELSE ProjectsJson(HttpOk, TRUE, projects, TypeOf(pjQuery))
    /\ UNCHANGED <<varsUp, OtherThanProjects, pjQuery>>

ProjectsIdle ==
    /\ pjPc = "idle"
    /\ pjQuery = <<>>
    /\ pjResponse = NullObject

-----------------------------------------------------------------------------
(* GET /api/projects over getEnhancedProjects *)

\* getRepositoryStats(repoName) once its three sub-fetches have resolved
getRepositoryStats(world, f, repoName) ==
    RepositoryStatsOf(fetchRepositoryDetails(world, f, repoName),
                      fetchRepositoryLanguages(world, f, repoName),
                      fetchRepositoryCommits(world, f, repoName, RecentCommitsLimit))

\* The alternative in which the map is keyed and read by the names as they are
InRepoMapExact(githubRepos, repoName) ==
    \E i \in 1..Len(githubRepos) : githubRepos[i].name = repoName

\* githubRepoMap.get(repoName.toLowerCase()) is defined
InRepoMap(githubRepos, repoName) ==
    \E i \in 1..Len(githubRepos) : ToLowerCase(githubRepos[i].name) = ToLowerCase(repoName)

\* The alternative in which the entry is rebuilt around the stats instead of spread
OnlyGithubData(project, githubStats) == [id |-> project.id, githubData |-> githubStats]

\* { ...project, githubData: githubStats }
WithGithubData(project, githubStats) ==
    [k \in DOMAIN project \cup {"githubData"} |-> IF k = "githubData" THEN githubStats ELSE project[k]]

\* The handler calls getEnhancedProjects, which requests the listing.
EP_Request ==
    /\ epPc = "idle"
    /\ epPc' = "listing"
    /\ UNCHANGED <<varsUp, OtherThanEnhanced, epRepos, epSlots, epResult, epResponse>>

\* The listing resolves. Without repositories the static entries are returned; otherwise
\* every entry whose repository is listed has its getRepositoryStats call started, and
\* the others resolve to the entry itself.
EP_ListResolved ==
    /\ epPc = "listing"
    /\ LET githubRepos == fetchUserRepositories(up, fault)
           needsStats(project) ==
               LET repoName == getRepoNameFromProject(project)
               IN  repoName # Null /\ InRepoMap(githubRepos, repoName)
       IN  /\ epRepos' = githubRepos
           /\ IF Len(githubRepos) = 0
              THEN /\ epPc' = "returned"
                   /\ epResult' = STATIC_PROJECTS
                   /\ UNCHANGED epSlots
              ELSE /\ epPc' = "enhancing"
                   /\ epSlots' = [i \in 1..Len(STATIC_PROJECTS) |->
                                    IF needsStats(STATIC_PROJECTS[i]) THEN Pending
                                    ELSE Resolved(STATIC_PROJECTS[i])]
                   /\ UNCHANGED epResult
    /\ UNCHANGED <<varsUp, OtherThanEnhanced, epResponse>>

\* The getRepositoryStats call of entry i resolves: the entry with githubData, or the
\* entry itself when the stats are null.
EP_StatsResolved(i) ==
    /\ epPc = "enhancing"
    /\ i \in DOMAIN epSlots
    /\ ~epSlots[i].resolved
    /\ LET project == STATIC_PROJECTS[i]
           githubStats == getRepositoryStats(up, fault, <<getRepoNameFromProject(project)>>)
       IN  epSlots' = [epSlots EXCEPT ![i] =
                          Resolved(IF githubStats # NullObject THEN WithGithubData(project, githubStats)
                                   ELSE project)]
    /\ UNCHANGED <<varsUp, OtherThanEnhanced, epPc, epRepos, epResult, epResponse>>

\* Promise.all resolves: the entries in the order of the static catalog.
EP_Return ==
    /\ epPc = "enhancing"
    /\ \A i \in DOMAIN epSlots : epSlots[i].resolved
    /\ epPc' = "returned"
    /\ epResult' = [i \in DOMAIN epSlots |-> epSlots[i].value]
    /\ UNCHANGED <<varsUp, OtherThanEnhanced, epRepos, epSlots, epResponse>>

\* The handler responds: the enhanced entries, getFeaturedProjects when there are none,
\* the 500 fallback when that has none either.
EP_Respond ==
    /\ epPc = "returned"
    /\ epPc' = "done"
    /\ LET projects == IF Len(epResult) = 0
                       THEN getFeaturedProjects(fetchUserRepositories(up, fault))
                       ELSE epResult
       IN  epResponse' = IF Len(projects) = 0
                         THEN ProjectsJson(HttpServerError, FALSE, STATIC_PROJECTS, Null)
                         ELSE ProjectsJson(HttpOk, TRUE, projects, Null)
    /\ UNCHANGED <<varsUp, OtherThanEnhanced, epRepos, epSlots, epResult>>

EnhancedIdle ==
    /\ epPc = "idle"
    /\ epRepos = <<>>
    /\ epSlots = <<>>
    /\ epResult = <<>>
    /\ epResponse = NullObject

-----------------------------------------------------------------------------
(* GET /api/projects over getFeaturedProjects alone *)

\* The handler calls getFeaturedProjects, which requests the listing.
FP_Request ==
    /\ fpPc = "idle"
    /\ fpPc' = "fetching"
    /\ UNCHANGED <<varsUp, OtherThanFeatured, fpResponse>>

\* The listing resolves and the handler responds with what getFeaturedProjects returned.
\* getFeaturedProjects throws nothing, so the handler's catch block is entered with no
\* exception of it.
FP_Respond ==
    /\ fpPc = "fetching"
    /\ fpPc' = "done"
    /\ LET outcome == [threw |-> FALSE, value |-> getFeaturedProjects(fetchUserRepositories(up, fault))]
       IN  fpResponse' = IF outcome.threw THEN ProjectsJson(HttpOk, TRUE, STATIC_PROJECTS, Null)
                         ELSE ProjectsJson(HttpOk, TRUE, outcome.value, Null)
    /\ UNCHANGED <<varsUp, OtherThanFeatured>>

FeaturedIdle ==
    /\ fpPc = "idle"
    /\ fpResponse = NullObject

-----------------------------------------------------------------------------
(* The pages of the visitor: ProjectsPageClient and GitHubStats *)

\* response.ok
ResponseOk(response) == response.status \in 200..299

\* The effect of the projects page runs: fetch("/api/projects") is sent.
PP_Fetch ==
    /\ ppPc = "idle"
    /\ ppPc' = "fetching"
    /\ UNCHANGED <<varsUp, OtherThanPages, ppProjects, ppError, svPc, svStats, svLoading, svError>>

\* The answer arrives: the projects are set, or the catch block sets error.
PP_Receive ==
    /\ ppPc = "fetching"
    /\ pjPc = "done"
    /\ ppPc' = "done"
    /\ IF ~ResponseOk(pjResponse)
       THEN ppError' = "Failed to fetch projects" /\ UNCHANGED ppProjects
       ELSE IF pjResponse.success
       THEN ppProjects' = pjResponse.data /\ UNCHANGED ppError
       ELSE /\ ppError' = IF pjResponse.error # Null /\ pjResponse.error # ""
                          THEN pjResponse.error ELSE "Unknown error"
            /\ UNCHANGED ppProjects
    /\ UNCHANGED <<varsUp, OtherThanPages, svPc, svStats, svLoading, svError>>

\* The effect of the stats view runs: setLoading(true), fetch("/api/github/stats") is sent.
SV_Fetch ==
    /\ svPc = "idle"
    /\ svPc' = "fetching"
    /\ svLoading' = TRUE
    /\ UNCHANGED <<varsUp, OtherThanPages, ppPc, ppProjects, ppError, svStats, svError>>

\* The answer arrives: the stats are set, or the catch block sets error; finally
\* loading is false.
SV_Receive ==
    /\ svPc = "fetching"
    /\ gsPc = "responded"
    /\ svPc' = "done"
    /\ IF ~ResponseOk(stResponse)
       THEN svError' = "Failed to fetch GitHub stats" /\ UNCHANGED svStats
       ELSE IF stResponse.success
       THEN svStats' = stResponse.data /\ UNCHANGED svError
       ELSE /\ svError' = IF stResponse.error # Null /\ stResponse.error # ""
                          THEN stResponse.error ELSE "Unknown error"
            /\ UNCHANGED svStats
    /\ svLoading' = FALSE
    /\ UNCHANGED <<varsUp, OtherThanPages, ppPc, ppProjects, ppError>>

\* useState([]), useState(null), useState(true)
PagesIdle ==
    /\ ppPc = "idle"
    /\ ppProjects = <<>>
    /\ ppError = Null
    /\ svPc = "idle"
    /\ svStats = NullObject
    /\ svLoading = TRUE
    /\ svError = Null

-----------------------------------------------------------------------------
(* One call of a fetcher, with its log and its upstream requests *)

\* The single githubApiRequest in the try block of each fetcher
FetcherRequest(world, f, fetcher, repoName) ==
    CASE fetcher = "list" ->
           githubApiRequest(world, f, "list", createUserEndpoint(<<"/", "repos">>), PerPageList)
      [] fetcher = "details" ->
           githubApiRequest(world, f, "details", createRepoEndpoint(repoName, <<>>), Null)
      [] fetcher = "languages" ->
           githubApiRequest(world, f, "languages", createRepoEndpoint(repoName, <<"/", "languages">>), Null)
      [] fetcher = "commits" ->
           githubApiRequest(world, f, "commits", createRepoEndpoint(repoName, <<"/", "commits">>),
                            RecentCommitsLimit)

FetcherResult(world, f, fetcher, repoName) ==
    CASE fetcher = "list"      -> fetchUserRepositories(world, f)
      [] fetcher = "details"   -> fetchRepositoryDetails(world, f, repoName)
      [] fetcher = "languages" -> fetchRepositoryLanguages(world, f, repoName)
      [] fetcher = "commits"   -> fetchRepositoryCommits(world, f, repoName, RecentCommitsLimit)

\* The first argument of console.error in the catch block of each fetcher
LogPrefix(fetcher) ==
    CASE fetcher = "list"      -> "Error fetching repositories:"
      [] fetcher = "details"   -> "Error fetching repository"
      [] fetcher = "languages" -> "Error fetching languages for"
      [] fetcher = "commits"   -> "Error fetching commits for"

\* The fetchers whose catch block returns before console.error when the status is 404
ReturnsQuietlyOn404 == {"details", "languages", "commits"}

\* What the catch block of a fetcher writes to the console for the outcome of its request
CatchLog(fetcher, outcome) ==
    IF outcome.ok THEN <<>>
    ELSE IF fetcher \in ReturnsQuietlyOn404 /\ outcome.error.status = HttpNotFound THEN <<>>
    ELSE <<[prefix |-> LogPrefix(fetcher), error |-> outcome.error]>>

\* A fetcher is called and returns: one request, its result, and what its catch block logged.
FT_Call(fetcher, repoName) ==
    /\ ftPc = "idle"
    /\ ftPc' = "returned"
    /\ ftFetcher' = fetcher
    /\ \E outcome \in {FetcherRequest(up, fault, fetcher, repoName)} :
          /\ ftOutcome' = outcome
          /\ ftLog' = ftLog \o CatchLog(fetcher, outcome)
    /\ ftRequests' = ftRequests + 1
    /\ ftResult' = FetcherResult(up, fault, fetcher, repoName)
    /\ UNCHANGED <<varsUp, OtherThanFetcher>>

FetcherIdle ==
    /\ ftPc = "idle"
    /\ ftFetcher = ""
    /\ ftOutcome = NullObject
    /\ ftResult = NullObject
    /\ ftLog = <<>>
    /\ ftRequests = 0

AllIdle ==
    /\ FetcherIdle
    /\ InterceptorIdle
    /\ PagesIdle
    /\ FiltersIdle
    /\ FeaturedIdle
    /\ StatsIdle
    /\ RouteIdle
    /\ ClientIdle
    /\ DisplayIdle
    /\ ProjectsIdle
    /\ EnhancedIdle

-----------------------------------------------------------------------------
(* Upstream accounts the specifications start from *)

MaxStatsRepos == 2

NoFault == [c \in CallClasses |-> "none"]

\* One class of calls fails, in one way.
SingleFaults == {[NoFault EXCEPT ![c] = k] : c \in CallClasses, k \in FaultKinds}

RepoNames == <<"alpha", "beta", "gamma", "delta">>

Commit(name, d) == [sha |-> <<name, d>>, date |-> d]

UpRepo(name, updated, stars, forks, flags, languages, commits) ==
    [name |-> name, updated_at |-> updated, created_at |-> 0,
     stargazers_count |-> stars, forks_count |-> forks,
     open_issues_count |-> forks, watchers_count |-> stars, size |-> 1,
     archived |-> flags = "archived", disabled |-> flags = "disabled", fork |-> flags = "fork",
     blocked |-> flags = "blocked",
     topics |-> <<>>, description |-> Null, html_url |-> GithubUrl(name),
     language |-> IF languages = <<>> THEN Null ELSE languages[1].language,
     languages |-> languages, commits |-> commits]

\* The repositories a slot of the account can hold: two update times, and a few
\* combinations of flags, stars, forks, language breakdown (in upstream's key order) and
\* commit history (newest first, as GitHub lists it).
StatsRepos(name) ==
    UNION { { UpRepo(name, u, 0, 0, "", <<>>, <<>>),
              UpRepo(name, u, 1, 0, "", <<[language |-> "Go", bytes |-> 1]>>, <<Commit(name, 3)>>),
              UpRepo(name, u, 2, 1, "", <<[language |-> "TS", bytes |-> 1]>>,
                     <<Commit(name, 2), Commit(name, 1)>>),
              UpRepo(name, u, 1, 1, "", <<[language |-> "TS", bytes |-> 1], [language |-> "Go", bytes |-> 2]>>,
                     <<Commit(name, 3)>>),
              UpRepo(name, u, 3, 0, "archived", <<[language |-> "Go", bytes |-> 1]>>, <<Commit(name, 3)>>),
              UpRepo(name, u, 3, 0, "disabled", <<[language |-> "Go", bytes |-> 1]>>, <<Commit(name, 3)>>) }
            : u \in {1, 2} }

RECURSIVE WorldsOf(_)
\* Every account of n repositories named RepoNames[1..n] drawn from StatsRepos
WorldsOf(n) ==
    IF n = 0 THEN {<<>>}
    ELSE {Append(w, r) : w \in WorldsOf(n - 1), r \in StatsRepos(RepoNames[n])}

\* An account of two repositories with more languages between them than the ranked list
\* holds: alpha has the first half, beta the second, the middle one is in both; all
\* account-wide counts differ
ManyLanguages == 12

LanguageNamed(i) == "L" \o ToString(i)

ManyLanguagesWorld ==
    << UpRepo("alpha", 2, 0, 0, "",
              [i \in 1..(ManyLanguages \div 2) |-> [language |-> LanguageNamed(i), bytes |-> i]], <<>>),
       UpRepo("beta", 1, 0, 0, "",
              [i \in 1..(ManyLanguages - (ManyLanguages \div 2) + 1) |->
                  [language |-> LanguageNamed(i + (ManyLanguages \div 2) - 1),
                   bytes |-> 2 * ManyLanguages - (i + (ManyLanguages \div 2) - 1)]], <<>>) >>

\* An account of more repositories than commits are fetched for, each with more commits
\* than are fetched per repository, and together more than the feed holds; the
\* repository updated longest ago has the newest commits
ManyRepos == 6

ActivityWorld ==
    [i \in 1..ManyRepos |->
        UpRepo("r" \o ToString(i), ManyRepos + 1 - i, 0, 0, "", <<>>,
               [k \in 1..(ActivityPerRepo + 1) |->
                   Commit("r" \o ToString(i), 10 * i + ActivityPerRepo + 1 - k)])]

\* An account whose languages all have a count of zero
ZeroBytesWorld ==
    << UpRepo("alpha", 1, 0, 0, "",
              <<[language |-> "Go", bytes |-> 0], [language |-> "TS", bytes |-> 0]>>, <<>>) >>

StatsWorlds == UNION {WorldsOf(n) : n \in 0..MaxStatsRepos} \cup {ManyLanguagesWorld, ZeroBytesWorld, ActivityWorld}

\* The accounts the fault combinations are tried on
FaultedWorlds ==
    { <<>>,
      <<UpRepo("alpha", 2, 2, 1, "", <<[language |-> "TS", bytes |-> 1], [language |-> "Go", bytes |-> 2]>>,
               <<Commit("alpha", 2), Commit("alpha", 1)>>)>>,
      <<UpRepo("alpha", 1, 1, 0, "", <<[language |-> "Go", bytes |-> 1]>>,
               [d \in 1..(RecentCommitsLimit + 1) |-> Commit("alpha", RecentCommitsLimit + 2 - d)])>> }

\* The accounts of the catalog: up to MaxCatalogRepos repositories of mixed stars, forks,
\* flags, topics and update days, and plain accounts of up to MaxPlainRepos repositories
MaxCatalogRepos == 2
MaxPlainRepos == 11

CatalogNames == <<"portofolio-marcel", "alpha", "beta">>
PlainNames == <<"r01", "r02", "r03", "r04", "r05", "r06", "r07", "r08", "r09", "r10", "r11", "r12">>

CatalogRepo(name, updated, stars, forks, flags, topics) ==
    [UpRepo(name, updated, stars, forks, flags, <<[language |-> "TS", bytes |-> 1]>>, <<Commit(name, 3)>>)
        EXCEPT !.topics = topics]

CatalogRepos(name) ==
    { CatalogRepo(name, 50, 0, 0, "", <<>>),
      CatalogRepo(name, 50, 20, 1, "", <<>>),
      CatalogRepo(name, 5, 1, 0, "fork", <<"Featured">>),
      CatalogRepo(name, 5, 2, 0, "", <<"Portfolio", "reactjs">>),
      CatalogRepo(name, 50, 3, 0, "archived", <<>>),
      CatalogRepo(name, 60, 0, 2, "", <<"featured">>) }

RECURSIVE CatalogWorldsOf(_)
CatalogWorldsOf(n) ==
    IF n = 0 THEN {<<>>}
    ELSE {Append(w, r) : w \in CatalogWorldsOf(n - 1), r \in CatalogRepos(CatalogNames[n])}

PlainWorld(n) == [i \in 1..n |-> CatalogRepo(PlainNames[i], 10 + i, i % 2, 0, "", <<>>)]

CatalogWorlds ==
    UNION {CatalogWorldsOf(n) : n \in 0..MaxCatalogRepos} \cup {PlainWorld(n) : n \in 3..MaxPlainRepos}

\* Every combination of outcomes of the listing, language and commit calls
StatsFaults ==
    {[c \in CallClasses |-> IF c = "list" THEN l ELSE IF c = "languages" THEN g
                            ELSE IF c = "commits" THEN k ELSE "none"] :
        l \in FaultKinds, g \in FaultKinds, k \in FaultKinds}

InitStats ==
    /\ \/ up \in StatsWorlds /\ fault = NoFault
       \/ up \in WorldsOf(1) /\ fault \in SingleFaults
       \/ up \in FaultedWorlds /\ fault \in StatsFaults
    /\ AllIdle

NextStats ==
    \/ GS_Call
    \/ GS_ListResolved
    \/ \E i \in 1..ManyRepos : GS_LanguagesResolved(i)
    \/ GS_LanguagesJoined
    \/ \E i \in 1..ManyRepos : GS_CommitsResolved(i)
    \/ GS_Return
    \/ ST_Respond

SpecStats == InitStats /\ [][NextStats]_vars

\* The language map when the language fetches resolve in the order of the repository list
RECURSIVE CountsInListOrder(_)
CountsInListOrder(k) ==
    IF k = 0 THEN <<>>
    ELSE MergeLanguages(CountsInListOrder(k - 1),
                        fetchRepositoryLanguages(up, fault, <<repositories[k].name>>))

\* The commit arrays of the first repositories, whatever order they resolved in
CommitArraysOfList ==
    [i \in 1..Min(ActivityRepos, Len(repositories)) |->
        fetchRepositoryCommits(up, fault, <<repositories[i].name>>, ActivityPerRepo)]

\* C1: for fixed upstream responses getGitHubStats returns the same mostUsedLanguages and
\* the same recentActivity under every completion order of its concurrent fetches, i.e.
\* the ones it returns when the fetches resolve in list order.
C1_SameOutputEveryCompletionOrder ==
    gsPc = "done" =>
        /\ gsResult.mostUsedLanguages = MostUsedLanguagesOf(CountsInListOrder(Len(repositories)))
        /\ gsResult.recentActivity = RecentActivityOf(CommitArraysOfList)

\* The activity feed alone does not depend on the completion order.
C1_ActivityOrderIndependent ==
    gsPc = "done" => gsResult.recentActivity = RecentActivityOf(CommitArraysOfList)

\* The repositories of the account that are neither archived nor disabled
LiveRepositories == FilterSeq(up, {r \in Elems(up) : ~r.archived /\ ~r.disabled})

\* C11: whatever the outcomes of the listing, language and commit calls, GET
\* /api/github/stats answers 200 with success true; when the listing fails the data is
\* all zeros and empty lists, and otherwise totalRepositories, totalStars and totalForks
\* are the count and the sums of stars and forks of the live repositories of the account.
C11_StatsAlways200 ==
    gsPc = "responded" =>
        /\ stResponse.status = 200
        /\ stResponse.success
        /\ IF fault["list"] # "none"
           THEN stResponse.data = EmptyStats
           ELSE /\ stResponse.data.totalRepositories = Len(LiveRepositories)
                /\ stResponse.data.totalStars =
                      SumSeq([i \in 1..Len(LiveRepositories) |-> LiveRepositories[i].stargazers_count])
                /\ stResponse.data.totalForks =
                      SumSeq([i \in 1..Len(LiveRepositories) |-> LiveRepositories[i].forks_count])

\* The listing of an account with a repository failed and the zero stats were served
C11_Witness ==
    /\ gsPc = "responded"
    /\ Len(LiveRepositories) > 0
    /\ fault["list"] = "network"
    /\ stResponse.status = 200
    /\ stResponse.data.totalRepositories = 0

\* What upstream answers to the listing request: its first page
ListedPage == UpstreamList(up, PerPageList)

\* C19: when the listing is served, fetchUserRepositories returns exactly the
\* repositories of upstream's answer that are neither archived nor disabled, each
\* once, and consecutive entries satisfy updated[i] >= updated[i+1]; no archived or
\* disabled repository is in its output, in the repositories of the account stats, or
\* among the dynamic projects converted from its output.
C19_ListIsLiveAndNewestFirst ==
    gsPc \in {"languages", "commits", "done", "responded"} =>
        /\ \A i \in 1..Len(repositories) : ~repositories[i].archived /\ ~repositories[i].disabled
        /\ \A i \in 1..(Len(repositories) - 1) :
               repositories[i].updated_at >= repositories[i + 1].updated_at
        /\ fault["list"] = "none" =>
               /\ Elems(repositories) = {r \in Elems(ListedPage) : ~r.archived /\ ~r.disabled}
               /\ Len(repositories) = Cardinality(Elems(repositories))
        /\ gsPc \in {"done", "responded"} => gsResult.repositories = repositories
        /\ LET dynamic == getDynamicProjects(repositories, NoFilters)
           IN  {dynamic[i].id : i \in 1..Len(dynamic)} = {r.name : r \in Elems(repositories)}

\* An archived repository and a live one were listed: the live one alone is returned
C19_Witness ==
    /\ gsPc = "done"
    /\ fault["list"] = "none"
    /\ Len(up) = 2
    /\ up[1].archived
    /\ ~up[2].archived /\ ~up[2].disabled
    /\ gsResult.repositories = <<up[2]>>

\* The languages of the breakdowns of the listed repositories
LanguagesListed ==
    UNION { {repositories[i].languages[j].language : j \in 1..Len(repositories[i].languages)}
            : i \in 1..Len(repositories) }

\* The bytes of language l in the breakdown of the listed repository i
BytesIn(i, l) ==
    SumSeq([j \in 1..Len(repositories[i].languages) |->
               IF repositories[i].languages[j].language = l THEN repositories[i].languages[j].bytes ELSE 0])

\* The bytes of language l over all listed repositories
AccountBytes(l) == SumSeq([i \in 1..Len(repositories) |-> BytesIn(i, l)])

\* C22: when the listing and the language calls are served, every entry of
\* mostUsedLanguages is a language of some listed repository with count the sum of its
\* bytes over all listed repositories, no language is entered twice, counts are in
\* non-increasing order, the list has min(10, number of languages) entries and no
\* language left out has more bytes than one that is in.
C22_TopTenOfSummedBytes ==
    gsPc \in {"done", "responded"} /\ fault["list"] = "none" /\ fault["languages"] = "none" =>
        LET ranked == gsResult.mostUsedLanguages
            listed == {ranked[i].language : i \in 1..Len(ranked)}
        IN  /\ listed \subseteq LanguagesListed
            /\ \A i \in 1..Len(ranked) : ranked[i].count = AccountBytes(ranked[i].language)
            /\ Cardinality(listed) = Len(ranked)
            /\ \A i \in 1..(Len(ranked) - 1) : ranked[i].count >= ranked[i + 1].count
            /\ Len(ranked) = Min(TopLanguages, Cardinality(LanguagesListed))
            /\ \A l \in LanguagesListed \ listed :
                   \A i \in 1..Len(ranked) : AccountBytes(l) <= ranked[i].count

\* Two repositories with more than 10 languages between them, one in both: 10 are ranked
\* and the shared language is first with the sum of its two counts
C22_Witness ==
    /\ gsPc = "done"
    /\ Cardinality(LanguagesListed) > TopLanguages
    /\ Len(gsResult.mostUsedLanguages) = TopLanguages
    /\ \A i \in 1..Len(repositories) : BytesIn(i, gsResult.mostUsedLanguages[1].language) > 0
    /\ gsResult.mostUsedLanguages[1].count = AccountBytes(gsResult.mostUsedLanguages[1].language)
    /\ Len(repositories) = 2

\* The bytes of all languages of the merged map, ranked or not
TotalLanguageBytes == SumSeq([i \in 1..Len(languageCounts) |-> languageCounts[i].bytes])

C23_WitnessZero ==
    /\ gsPc = "done"
    /\ Len(gsResult.mostUsedLanguages) = 2
    /\ TotalLanguageBytes = 0
    /\ \A i \in 1..2 : gsResult.mostUsedLanguages[i].percentage.num = 0

\* The commits the feed can be made of: the first 3 of the history of each of the first
\* 5 listed repositories
FeedCandidates ==
    UNION { {repositories[i].commits[k] : k \in 1..Min(ActivityPerRepo, Len(repositories[i].commits))}
            : i \in 1..Min(ActivityRepos, Len(repositories)) }

-----------------------------------------------------------------------------
(* GET /api/github/repos/[repo] *)

\* The path parameters a request can carry: none, blank, a bare name, owner/name, and
\* names that are not of the form owner/repo (a lone slash, an owner without a name,
\* three parts)
RepoParams ==
    { <<>>, <<" ">>, <<"alpha">>, <<"ghost">>,
      <<"Cyrochrome", "/", "alpha">>, <<"Cyrochrome", "/", "ghost">>,
      <<"/">>, <<"Cyrochrome", "/">>, <<"Cyrochrome", "/", "alpha", "/", "beta">> }

\* Every way the three sub-fetch classes can fail; the listing is not called.
RouteFaults == {f \in [CallClasses -> FaultKinds] : f["list"] = "none"}

\* The repository names getRepositoryStats is called with directly
RepoNameArgs == { <<"alpha">>, <<"ghost">> }

\* Language breakdowns in upstream's key order: the largest count not first, counts
\* tied for the largest, and counts that are all zero
Breakdowns ==
    { <<[language |-> "Go", bytes |-> 500], [language |-> "TS", bytes |-> 1500]>>,
      <<[language |-> "TS", bytes |-> 1], [language |-> "Go", bytes |-> 1]>>,
      <<[language |-> "Go", bytes |-> 1], [language |-> "TS", bytes |-> 2], [language |-> "Rust", bytes |-> 2]>>,
      <<[language |-> "Go", bytes |-> 0]>>,
      <<[language |-> "Go", bytes |-> 0], [language |-> "TS", bytes |-> 0]>> }

LanguageWorlds == { <<UpRepo("alpha", 1, 1, 0, "", b, <<Commit("alpha", 1)>>)>> : b \in Breakdowns }

InitRoute ==
    /\ \/ up \in WorldsOf(0) \cup WorldsOf(1) \cup LanguageWorlds /\ fault = NoFault
       \/ up \in FaultedWorlds /\ fault \in RouteFaults
    /\ AllIdle

NextRoute ==
    \/ \E repo \in RepoParams : RT_Request(repo)
    \/ \E repoName \in RepoNameArgs : RS_Call(repoName)
    \/ \E k \in SubFetchSet : RS_Resolved(k)
    \/ RS_Return
    \/ RT_Respond

SpecRoute == InitRoute /\ [][NextRoute]_vars

\* C2: getRepositoryStats has started the repository, language and commit sub-fetches
\* all before any of them resolves, and what it returns is what the three upstream
\* answers determine, whatever order they resolved in.
C2_JoinAllOrderIndependent ==
    /\ rsOrder # <<>> => rsStarted = {"details", "languages", "commits"}
    /\ rtPc \in {"returned", "done"} /\ rsOrder # <<>> =>
          rsResult = RepositoryStatsOf(fetchRepositoryDetails(up, fault, rsRepoName),
                                       fetchRepositoryLanguages(up, fault, rsRepoName),
                                       fetchRepositoryCommits(up, fault, rsRepoName, RecentCommitsLimit))

\* getRepositoryStats returned the stats of a repository with languages and commits
\* after its sub-fetches resolved in the reverse of their order in the array.
C2_Witness ==
    /\ rtPc = "returned"
    /\ rsOrder = <<"commits", "languages", "details">>
    /\ rsResult # NullObject
    /\ rsResult.language = "Go"
    /\ Len(rsResult.recentCommits) = 2

\* C3: GET /api/github/repos/{repo} answers 503 when the upstream call for the
\* repository fails with a network failure and 429 when upstream signals rate-limit
\* exhaustion.
C3_NetworkIs503RateLimitIs429 ==
    rtPc = "done" /\ rsCaller = "route" /\ rsOrder # <<>> =>
        /\ fault["details"] = "network" => rtResponse.status = 503
        /\ fault["details"] \in {"rate_limit", "too_many"} => rtResponse.status = 429

\* C4: for a repository n that exists upstream, GET /api/github/repos/n and
\* GET /api/github/repos/Cyrochrome/n look up /repos/Cyrochrome/n and answer 200 with
\* success and the RepositoryStats of n.
C4_BareAndOwnerNameFindRepository ==
    \A n \in {"alpha"} :
        /\ rsCaller = "route"
        /\ repoParam \in { <<n>>, <<"Cyrochrome", "/", n>> }
        /\ UpRepoExists(up, n)
        /\ fault = NoFault
        => /\ rtPc # "idle" => <<"/", "repos", "/", "Cyrochrome", "/", n>> \in rsEndpoints
           /\ rtPc = "done" =>
                /\ rtResponse.status = 200
                /\ rtResponse.success
                /\ rtResponse.data = RepositoryStatsOf(UpRepoNamed(up, n), UpRepoNamed(up, n).languages,
                                                       Slice(UpRepoNamed(up, n).commits, RecentCommitsLimit))

\* A repo parameter of the form name or owner/name
WellFormedRepo(repo) ==
    \/ Len(repo) = 1 /\ repo[1] \notin {"/", " "}
    \/ Len(repo) = 3 /\ repo[2] = "/" /\ repo[1] \notin {"/", " "} /\ repo[3] \notin {"/", " "}

\* C16: GET /api/github/repos/{repo} answers 400 with success false when the repo
\* parameter is empty, blank or malformed, 404 with success false and the error
\* "Repository not found or inaccessible" when getRepositoryStats yields null, and 200
\* with success true only when the stats are not null.
C16_BadNameIs400NullIs404 ==
    rtPc = "done" /\ rsCaller = "route" =>
        /\ ~WellFormedRepo(repoParam) => rtResponse.status = 400 /\ ~rtResponse.success
        /\ WellFormedRepo(repoParam) /\ rsResult = NullObject =>
              /\ rtResponse.status = 404
              /\ ~rtResponse.success
              /\ rtResponse.error = "Repository not found or inaccessible"
        /\ rtResponse.status = 200 => rtResponse.success /\ rsResult # NullObject

\* Upstream serves the lookup of the repository getRepositoryStats was called for
LookupServed ==
    /\ fault["details"] = "none"
    /\ Len(rsRepoName) = 1
    /\ UpRepoExists(up, rsRepoName[1])
    /\ ~UpRepoNamed(up, rsRepoName[1]).blocked

\* C17: getRepositoryStats returns null exactly when the repository lookup returns
\* null; when the lookup succeeds its result carries the repository's stars, forks,
\* issues, watchers, size and timestamps, with languages {} and language null when the
\* language fetch fails or is empty, and recentCommits [] when the commit fetch fails.
C17_NullOnlyWithoutRepository ==
    rtPc \in {"returned", "done"} /\ rsOrder # <<>> =>
        /\ (rsResult = NullObject) <=> (rsSlots["details"].value = NullObject)
        /\ (rsResult = NullObject) <=> ~LookupServed
        /\ rsResult # NullObject =>
              LET repo == UpRepoNamed(up, rsRepoName[1])
              IN  /\ rsResult.stars = repo.stargazers_count
                  /\ rsResult.forks = repo.forks_count
                  /\ rsResult.issues = repo.open_issues_count
                  /\ rsResult.watchers = repo.watchers_count
                  /\ rsResult.size = repo.size
                  /\ rsResult.lastUpdated = repo.updated_at
                  /\ rsResult.createdAt = repo.created_at
                  /\ fault["languages"] # "none" \/ repo.languages = <<>> =>
                        rsResult.languages = <<>> /\ rsResult.language = Null
                  /\ fault["commits"] # "none" \/ repo.commits = <<>> => rsResult.recentCommits = <<>>

\* The lookup succeeded, the language and commit fetches failed, and stats were returned
C17_Witness ==
    /\ rtPc = "returned"
    /\ fault["languages"] = "server"
    /\ fault["commits"] = "network"
    /\ rsResult # NullObject
    /\ rsResult.stars = 2
    /\ rsResult.languages = <<>>
    /\ rsResult.recentCommits = <<>>

\* The byte counts of the breakdown getRepositoryStats returned
BytesReturned == [i \in 1..Len(rsResult.languages) |-> rsResult.languages[i].bytes]

\* C21: in what getRepositoryStats returns, language is null when the byte counts of
\* languages sum to 0 (the empty breakdown included); otherwise it is the key of the
\* first entry of the breakdown whose count is the maximum.
C21_PrimaryLanguageIsFirstMaximum ==
    rtPc \in {"returned", "done"} /\ rsOrder # <<>> /\ rsResult # NullObject =>
        IF SumSeq(BytesReturned) = 0
        THEN rsResult.language = Null
        ELSE \E i \in 1..Len(rsResult.languages) :
                /\ rsResult.language = rsResult.languages[i].language
                /\ \A j \in 1..Len(rsResult.languages) : BytesReturned[j] <= BytesReturned[i]
                /\ \A j \in 1..(i - 1) : BytesReturned[j] < BytesReturned[i]

\* {Go: 500, TS: 1500} resolved to TS
C21_Witness ==
    /\ rtPc = "returned"
    /\ rsResult # NullObject
    /\ rsResult.languages = <<[language |-> "Go", bytes |-> 500], [language |-> "TS", bytes |-> 1500]>>
    /\ rsResult.language = "TS"

\* Go, TS and Rust with TS and Rust tied for the maximum resolved to TS
C21_WitnessTie ==
    /\ rtPc = "returned"
    /\ rsResult # NullObject
    /\ Len(rsResult.languages) = 3
    /\ rsResult.language = "TS"

\* A breakdown of zero counts resolved to null
C21_WitnessZero ==
    /\ rtPc = "returned"
    /\ rsResult # NullObject
    /\ Len(rsResult.languages) = 2
    /\ SumSeq(BytesReturned) = 0
    /\ rsResult.language = Null

\* What each detail fetcher returns in place of its data
EmptyOf(k) ==
    CASE k = "details"   -> NullObject
      [] k = "languages" -> <<>>
      [] k = "commits"   -> <<>>

\* Upstream has no repository for the endpoints of the name getRepositoryStats was
\* called with
NotFoundUpstream == ~(Len(rsRepoName) = 1 /\ UpRepoExists(up, rsRepoName[1]))

\* C18: whenever its upstream call fails (rate limit, server error, client error,
\* network failure) or finds no repository, fetchRepositoryDetails resolves to null,
\* fetchRepositoryLanguages to {} and fetchRepositoryCommits to []; and
\* fetchRepositoryCommits(name, limit) resolves to at most limit commits.
C18_DetailFetchersNeverThrow ==
    \A k \in DOMAIN rsSlots :
        rsSlots[k].resolved =>
            /\ fault[k] # "none" \/ NotFoundUpstream => rsSlots[k].value = EmptyOf(k)
            /\ k = "commits" => Len(rsSlots[k].value) <= RecentCommitsLimit

\* Each of the three fetchers met a failure of its own kind and resolved to its empty value
C18_Witness ==
    /\ rtPc = "returned"
    /\ ~NotFoundUpstream
    /\ fault["details"] = "rate_limit"
    /\ fault["languages"] = "server"
    /\ fault["commits"] = "network"
    /\ \A k \in SubFetchSet : rsSlots[k].resolved /\ rsSlots[k].value = EmptyOf(k)

-----------------------------------------------------------------------------
(* The upstream client over time *)

InitClient ==
    /\ up = <<>>
    /\ fault = NoFault
    /\ AllIdle

NextClient ==
    \/ \E cls \in CallClasses, repoName \in RepoNameArgs : CL_Request(cls, repoName)
    \/ CL_Tick

SpecClient == InitClient /\ [][NextClient]_vars

\* The time-to-live of each data class, as the fetch-based fetchers declared it (the
\* language breakdown shares the repository list's)
TtlList == 3600
TtlDetail == 1800
TtlCommits == 900

Ttl(cls) ==
    CASE cls = "list"      -> TtlList
      [] cls = "languages" -> TtlList
      [] cls = "commits"   -> TtlCommits
      [] OTHER             -> TtlDetail

\* C6: two identical upstream calls within the TTL window of their data class cause one
\* network round trip: no key has two round trips less than its TTL apart.
C6_OneRoundTripPerTtlWindow ==
    \A i, j \in 1..Len(roundTrips) :
        i < j /\ roundTrips[i].key = roundTrips[j].key /\ roundTrips[i].class \in {"list", "details", "commits"}
        => roundTrips[j].at - roundTrips[i].at >= Ttl(roundTrips[i].class)

-----------------------------------------------------------------------------
(* The display order of the catalog *)

MaxConfigured == 3

ConfigIds == <<"one", "two", "three", "four">>

\* The entries a slot of a configured list can hold: featured or not, without a
\* priority or with one of a few, 0 and values around the default among them
ConfigEntries(id) ==
    LET base(featured) == [id |-> id, title |-> id, description |-> id, technologies |-> <<>>,
                           featured |-> featured]
    IN  { base(f) : f \in BOOLEAN }
        \cup { Spread(base(f), [priority |-> Num(n)]) : f \in BOOLEAN, n \in {0, 1, 999, 1000} }

RECURSIVE ConfigListsOf(_)
ConfigListsOf(n) ==
    IF n = 0 THEN {<<>>}
    ELSE {Append(l, e) : l \in ConfigListsOf(n - 1), e \in ConfigEntries(ConfigIds[n])}

ConfigLists == UNION {ConfigListsOf(n) : n \in 0..MaxConfigured}

InitDisplay ==
    /\ up = <<>>
    /\ fault = NoFault
    /\ AllIdle

NextDisplay ==
    \/ \E projects \in ConfigLists : PD_LoadConfigured(projects)
    \/ \E repos \in CatalogWorlds : PD_LoadDynamic(repos)
    \/ PD_Process
    \/ PD_FilterSection

SpecDisplay == InitDisplay /\ [][NextDisplay]_vars

HasPriority(project) == "priority" \in DOMAIN project

\* The place of a displayed entry in the list that was loaded
InputIndex(project) == CHOOSE i \in 1..Len(pdProjects) : pdProjects[i].id = project.id

SamePriority(a, b) ==
    IF HasPriority(a) /\ HasPriority(b) THEN a.priority = b.priority
    ELSE ~HasPriority(a) /\ ~HasPriority(b)

\* C7 (second half): displayed entries of equal priority keep their input order.
C7_EqualPriorityKeepsInputOrder ==
    pdPc \in {"processed", "sorted"} =>
        \A i, j \in 1..Len(pdDisplayed) :
            i < j /\ SamePriority(pdDisplayed[i], pdDisplayed[j])
                => InputIndex(pdDisplayed[i]) < InputIndex(pdDisplayed[j])

\* C7: in the display order of processProjectsForDisplay and of the filter section's
\* default sort, no entry without a priority comes before an entry that has one,
\* whatever the priority (0 and values above 999 included), and entries of equal
\* priority keep their input order.
C7_NoPriorityLastAndStable ==
    /\ C7_EqualPriorityKeepsInputOrder
    /\ pdPc \in {"processed", "sorted"} =>
        \A i, j \in 1..Len(pdDisplayed) :
            i < j => ~(~HasPriority(pdDisplayed[i]) /\ HasPriority(pdDisplayed[j]))

\* stars * 10 + forks * 5 of the repository an entry was converted from
Engagement(project) ==
    LET repo == pdRepos[InputIndex(project)]
    IN  repo.stargazers_count * 10 + repo.forks_count * 5

\* C8 (first half): a converted entry's priority is stars * 10 + forks * 5.
C8_PriorityIsEngagement ==
    pdPc # "idle" /\ pdRepos # <<>> =>
        \A i \in 1..Len(pdProjects) : pdProjects[i].priority = Num(Engagement(pdProjects[i]))

\* C8: converted entries get priority stars * 10 + forks * 5, and in the order of
\* processProjectsForDisplay no entry comes before one of higher engagement.
C8_HigherEngagementFirst ==
    /\ C8_PriorityIsEngagement
    /\ pdPc = "processed" /\ pdRepos # <<>> =>
        \A i, j \in 1..Len(pdDisplayed) :
            i < j => Engagement(pdDisplayed[i]) >= Engagement(pdDisplayed[j])

-----------------------------------------------------------------------------
(* GET /api/projects with its type parameter *)

\* A parameter that is absent, or present with one of the values
OptionalParam(name, values) == {NoFilters} \cup {[k \in {name} |-> v] : v \in values}

\* The queries tried: every type (a type outside the switch and none at all among them),
\* and for the dynamic type limits of 0, 1, 2, a non-number and none, with and without
\* minStars, sortBy and excludeForks
Queries ==
    {NoFilters}
    \cup {[type |-> <<t>>] : t \in {"featured", "recent", "all", "dynamic", "bogus"}}
    \cup {[type |-> <<"recent">>, limit |-> l] : l \in {<<"0">>, <<"1">>}}
    \cup {Spread(Spread(Spread(Spread([type |-> <<"dynamic">>], l), ms), sb), ef) :
            l \in OptionalParam("limit", {<<"0">>, <<"1">>, <<"2">>, <<"abc">>}),
            ms \in OptionalParam("minStars", {<<"1">>}),
            sb \in OptionalParam("sortBy", {<<"stars">>, <<"name">>}),
            ef \in OptionalParam("excludeForks", {<<"true">>})}

InitProjects ==
    /\ \/ up \in CatalogWorlds /\ fault = NoFault
       \/ up \in CatalogWorldsOf(1) /\ fault \in SingleFaults
    /\ AllIdle

NextProjects ==
    \/ \E query \in Queries : PJ_Request(query)
    \/ PJ_Respond

SpecProjects == InitProjects /\ [][NextProjects]_vars

\* The filtered, sorted list of the dynamic catalog for the query, before any limit
FilteredSorted(query) ==
    LET filters == Spread(DefaultFilters, DynamicFiltersOf(query))
    IN  CHOOSE projects \in
            { [i \in 1..Len(repos) |-> convertGitHubRepoToProject(repos[i])]
              : repos \in {SortRepositories(FilterRepositories(fetchUserRepositories(up, fault), filters),
                                            filters)} } : TRUE

\* C9: for every limit L >= 0 given to the dynamic catalog through ?limit=L the list
\* returned is the first L entries of the filtered, sorted list, so at most L entries;
\* without a limit it is the first 10.
C9_AtMostLimitEntries ==
    pjPc = "done" /\ TypeOf(pjQuery) = <<"dynamic">> /\ pjResponse.success =>
        LET L == LimitOf(pjQuery)
        IN  L.kind = "number" /\ L.n >= 0 =>
                /\ Len(pjResponse.data) <= L.n
                /\ pjResponse.data = Slice(FilteredSorted(pjQuery), L.n)

\* C10: GET /api/projects?type=all returns one entry for every repository of the live
\* (non-archived, non-disabled) repository list, whatever its size.
C10_AllReturnsEveryLiveRepository ==
    pjPc = "done" /\ TypeOf(pjQuery) = <<"all">> /\ fault = NoFault /\ Len(LiveRepositories) > 0 =>
        /\ pjResponse.success
        /\ pjResponse.count = Len(LiveRepositories)
        /\ {pjResponse.data[i].id : i \in 1..Len(pjResponse.data)}
              = {LiveRepositories[i].name : i \in 1..Len(LiveRepositories)}

\* C15: when the catalog mode the type selects yields an empty list, GET /api/projects
\* answers 500 with success false, an error string and the static catalog as data;
\* otherwise it answers 200 with success true, the type, the mode's list as data and
\* its length as count.
C15_EmptyModeIs500WithStatic ==
    pjPc = "done" =>
        LET projects == ProjectsOfType(pjQuery, fetchUserRepositories(up, fault))
        IN  IF Len(projects) = 0
            THEN /\ pjResponse.status # 200
                 /\ pjResponse.status = 500
                 /\ ~pjResponse.success
                 /\ pjResponse.error \notin {Null, ""}
                 /\ pjResponse.data = STATIC_PROJECTS
            ELSE /\ pjResponse.status = 200
                 /\ pjResponse.success
                 /\ pjResponse.type = TypeOf(pjQuery)
                 /\ pjResponse.data = projects
                 /\ pjResponse.count = Len(pjResponse.data)

\* The account has repositories, none updated in the last 90 days: the recent mode was
\* empty and the 500 fallback was served
C15_Witness ==
    /\ pjPc = "done"
    /\ TypeOf(pjQuery) = <<"recent">>
    /\ fault = NoFault
    /\ Len(LiveRepositories) > 0
    /\ pjResponse.status = 500
    /\ pjResponse.data = STATIC_PROJECTS

-----------------------------------------------------------------------------
(* The featured catalog: GET /api/projects?type=featured, and getEnhancedProjects *)

\* The queries that reach the featured case: the type given, left out, or outside the switch
FeaturedQueries == {NoFilters, [type |-> <<"featured">>], [type |-> <<"bogus">>]}

InitFeatured ==
    /\ \/ up \in CatalogWorlds /\ fault = NoFault
       \/ up \in CatalogWorldsOf(1) /\ fault \in SingleFaults
    /\ AllIdle

NextFeatured ==
    \/ \E query \in FeaturedQueries : PJ_Request(query)
    \/ PJ_Respond
    \/ EP_Request
    \/ EP_ListResolved
    \/ \E i \in 1..Len(STATIC_PROJECTS) : EP_StatsResolved(i)
    \/ EP_Return
    \/ EP_Respond

SpecFeatured == InitFeatured /\ [][NextFeatured]_vars

\* The static entry's source repository is in the live list
MatchesLive(project) ==
    \E i \in 1..Len(LiveRepositories) : LiveRepositories[i].name = getRepoNameFromProject(project)

LiveMatch(project) ==
    LiveRepositories[CHOOSE i \in 1..Len(LiveRepositories) :
                        LiveRepositories[i].name = getRepoNameFromProject(project)]

\* data is the static catalog, each entry with a live source repository carrying
\* githubData with the live star count, the others unchanged
EnhancedStaticCatalog(data) ==
    /\ Len(data) = Len(STATIC_PROJECTS)
    /\ \A i \in 1..Len(STATIC_PROJECTS) :
          IF MatchesLive(STATIC_PROJECTS[i])
          THEN /\ "githubData" \in DOMAIN data[i]
               /\ data[i].githubData.stars = LiveMatch(STATIC_PROJECTS[i]).stargazers_count
               /\ [k \in DOMAIN STATIC_PROJECTS[i] |-> data[i][k]] = STATIC_PROJECTS[i]
          ELSE data[i] = STATIC_PROJECTS[i]

\* What the handler over getEnhancedProjects answers when upstream is healthy and has
\* live repositories: the enhanced static catalog.
EnhancedRouteCarriesLiveStars ==
    epPc = "done" /\ fault = NoFault /\ Len(LiveRepositories) > 0 =>
        epResponse.success /\ EnhancedStaticCatalog(epResponse.data)

\* C5: when a static entry's source repository is live, GET /api/projects?type=featured
\* returns the static catalog with that entry carrying githubData with the live star
\* count and the other entries unchanged.
C5_FeaturedCarriesLiveStars ==
    (/\ pjPc = "done"
     /\ pjQuery = [type |-> <<"featured">>]
     /\ fault = NoFault
     /\ \E i \in 1..Len(STATIC_PROJECTS) : MatchesLive(STATIC_PROJECTS[i]))
        => pjResponse.success /\ EnhancedStaticCatalog(pjResponse.data)

-----------------------------------------------------------------------------
(* getEnhancedProjects under every upstream outcome *)

\* Every combination of outcomes of the four classes of calls
AllFaults == [CallClasses -> FaultKinds]

\* What the account can hold under the name of a static entry's source repository:
\* nothing, the repository with stars, the repository blocked for its own endpoints,
\* or the repository archived (so not in the live list)
SourceRepos(name) ==
    { <<>>,
      <<CatalogRepo(name, 50, 20, 1, "", <<>>)>>,
      <<CatalogRepo(name, 60, 4, 0, "blocked", <<>>)>>,
      <<CatalogRepo(name, 70, 3, 0, "archived", <<>>)>> }

\* The accounts of the enhanced catalog: for each static entry one of SourceRepos, the
\* last entry's repository also under a name of other case, and a repository of no entry
EnhancedWorlds ==
    { a \o b \o c \o d :
        a \in SourceRepos("portofolio-marcel"),
        b \in SourceRepos("nuxt-gemini-chatbot"),
        c \in SourceRepos("bimbel-alfa") \cup {<<CatalogRepo("Bimbel-Alfa", 40, 7, 0, "", <<>>)>>},
        d \in {<<>>, <<CatalogRepo("alpha", 50, 1, 0, "", <<>>)>>} }

\* The accounts every combination of outcomes is tried on: each entry's repository live
EnhancedFaultedWorlds ==
    { <<CatalogRepo("portofolio-marcel", 50, 20, 1, "", <<>>),
        CatalogRepo("nuxt-gemini-chatbot", 60, 4, 0, "", <<>>),
        CatalogRepo("Bimbel-Alfa", 40, 7, 0, "", <<>>)>> }

\* An account of more repositories than one page of the listing holds, the first the
\* least recently updated
OverPage == 1
LargeAccount ==
    [i \in 1..(PerPageList + OverPage) |-> CatalogRepo("r" \o ToString(i), i, 0, 0, "", <<>>)]

InitEnhanced ==
    /\ \/ up \in EnhancedWorlds /\ fault = NoFault
       \/ up \in EnhancedFaultedWorlds /\ fault \in AllFaults
       \/ up = LargeAccount /\ fault \in {NoFault, [NoFault EXCEPT !["list"] = "server"]}
    /\ AllIdle

NextEnhanced ==
    \/ EP_Request
    \/ EP_ListResolved
    \/ \E i \in 1..Len(STATIC_PROJECTS) : EP_StatsResolved(i)
    \/ EP_Return
    \/ EP_Respond

SpecEnhanced == InitEnhanced /\ [][NextEnhanced]_vars

\* The source repository of static entry i is in the live list served, under its name
\* in any case
ListedFor(i) ==
    /\ fault["list"] = "none"
    /\ \E k \in 1..Len(LiveRepositories) :
          ToLowerCase(LiveRepositories[k].name) = ToLowerCase(getRepoNameFromProject(STATIC_PROJECTS[i]))

\* Upstream serves the repository lookup of static entry i
LookupServedFor(i) ==
    /\ fault["details"] = "none"
    /\ \E k \in 1..Len(up) :
          /\ ToLowerCase(up[k].name) = ToLowerCase(getRepoNameFromProject(STATIC_PROJECTS[i]))
          /\ ~up[k].blocked

\* C12: under every upstream outcome getEnhancedProjects returns a list of the length,
\* order and ids of STATIC_PROJECTS in which every field but githubData is the static
\* entry's; when no entry can be enhanced it is the static list.
C12_EnhancedKeepsStaticFields ==
    epPc \in {"returned", "done"} =>
        /\ Len(epResult) = Len(STATIC_PROJECTS)
        /\ \A i \in 1..Len(STATIC_PROJECTS) :
              /\ epResult[i].id = STATIC_PROJECTS[i].id
              /\ DOMAIN STATIC_PROJECTS[i] \subseteq DOMAIN epResult[i]
              /\ DOMAIN epResult[i] \subseteq DOMAIN STATIC_PROJECTS[i] \cup {"githubData"}
              /\ [k \in DOMAIN STATIC_PROJECTS[i] |-> epResult[i][k]] = STATIC_PROJECTS[i]
        /\ (\A i \in 1..Len(STATIC_PROJECTS) : ~(ListedFor(i) /\ LookupServedFor(i)))
              => epResult = STATIC_PROJECTS

\* Every entry's repository is listed, every lookup fails, and the static list came back
C12_Witness ==
    /\ epPc = "returned"
    /\ \A i \in 1..Len(STATIC_PROJECTS) : ListedFor(i)
    /\ fault["details"] = "server"
    /\ epResult = STATIC_PROJECTS

\* C13: entry i carries githubData exactly when the name resolved from its githubUrl
\* matches, in any case, a name of the live list and its repository lookup yields the
\* repository, whatever becomes of the other entries.
C13_EnhancedIndependently ==
    epPc \in {"returned", "done"} =>
        \A i \in 1..Len(STATIC_PROJECTS) :
            ("githubData" \in DOMAIN epResult[i]) <=> (ListedFor(i) /\ LookupServedFor(i))

\* One entry is enhanced, through a name of other case, while the lookup of another
\* listed entry fails
C13_Witness ==
    /\ epPc = "returned"
    /\ \E i, j \in 1..Len(STATIC_PROJECTS) :
          /\ "githubData" \in DOMAIN epResult[i]
          /\ getRepoNameFromProject(STATIC_PROJECTS[i]) \notin {up[k].name : k \in 1..Len(up)}
          /\ ListedFor(j)
          /\ ~LookupServedFor(j)
          /\ "githubData" \notin DOMAIN epResult[j]

-----------------------------------------------------------------------------
(* The three handlers of GET /api/projects, one request at a time *)

\* No handler of GET /api/projects has a request: the handlers share no state, and
\* the requests are followed one by one
NoProjectsRequest == pjPc = "idle" /\ epPc = "idle" /\ fpPc = "idle"

InitCatalog ==
    /\ \/ up \in CatalogWorlds /\ fault = NoFault
       \/ up \in CatalogWorldsOf(1) /\ fault \in SingleFaults
    /\ AllIdle

NextCatalog ==
    \/ \E query \in Queries : NoProjectsRequest /\ PJ_Request(query)
    \/ PJ_Respond
    \/ NoProjectsRequest /\ EP_Request
    \/ EP_ListResolved
    \/ \E i \in 1..Len(STATIC_PROJECTS) : EP_StatsResolved(i)
    \/ EP_Return
    \/ EP_Respond
    \/ NoProjectsRequest /\ FP_Request
    \/ FP_Respond

SpecCatalog == InitCatalog /\ [][NextCatalog]_vars

\* C14: with a non-empty static catalog, getEnhancedProjects and getFeaturedProjects
\* return a non-empty list, and every response of GET /api/projects, success or failure,
\* whatever the type and the upstream outcome, carries a non-empty data list.
C14_DataNeverEmpty ==
    Len(STATIC_PROJECTS) > 0 =>
        /\ epPc \in {"returned", "done"} => Len(epResult) > 0
        /\ epPc = "done" => Len(epResponse.data) > 0
        /\ fpPc = "done" => Len(fpResponse.data) > 0
        /\ pjPc = "done" => Len(pjResponse.data) > 0

\* The listing failed, the dynamic catalog was empty and the static catalog was served
C14_Witness ==
    /\ pjPc = "done"
    /\ TypeOf(pjQuery) = <<"dynamic">>
    /\ fault["list"] = "network"
    /\ Len(up) > 0
    /\ ~pjResponse.success
    /\ pjResponse.data = STATIC_PROJECTS

\* C20: fetchUserRepositories never fails: under every kind of failure of the listing
\* call it returns []; and it returns repositories of the one page of at most 100 it
\* requests only, so never more than 100 of them, however many the account has.
C20_ListNeverFailsOnePage ==
    epPc \in {"enhancing", "returned", "done"} =>
        /\ fault["list"] # "none" => epRepos = <<>>
        /\ Len(epRepos) <= PerPageList
        /\ Elems(epRepos) \subseteq Elems(ListedPage)
        /\ fault["list"] = "none" /\ Len(up) <= PerPageList =>
               Len(epRepos) = Len(LiveRepositories)

\* The account has more repositories than the page: the page alone is returned, without
\* the repository updated longest ago
C20_Witness ==
    /\ epPc = "returned"
    /\ fault["list"] = "none"
    /\ Len(up) > PerPageList
    /\ Len(LiveRepositories) = Len(up)
    /\ Len(epRepos) = PerPageList
    /\ up[1] \notin Elems(epRepos)

\* The listing of an account of live repositories was rate-limited and [] was returned
C20_WitnessFailure ==
    /\ epPc = "returned"
    /\ fault["list"] = "rate_limit"
    /\ Len(LiveRepositories) = Len(up) /\ Len(up) > 0
    /\ epRepos = <<>>

-----------------------------------------------------------------------------
(* applyProjectFilters and the dynamic catalog under every knob *)

\* Three repositories that upstream lists with stars 5, 0, 10, whose orders by stars,
\* update time, creation time and name all differ
SortWorld ==
    << [CatalogRepo("alpha", 30, 5, 0, "", <<>>) EXCEPT !.created_at = 2],
       [CatalogRepo("beta", 20, 0, 1, "", <<>>) EXCEPT !.created_at = 3],
       [CatalogRepo("gamma", 10, 10, 2, "", <<>>) EXCEPT !.created_at = 1] >>

\* The arrays handed to applyProjectFilters and the accounts the dynamic catalog reads
FilterWorlds == CatalogWorldsOf(1) \cup CatalogWorldsOf(2) \cup {SortWorld}

\* A property of the filters that is absent, or present with one of the values
OptionalKnob(name, values) == {NoFilters} \cup {[k \in {name} |-> v] : v \in values}

\* The filters tried: every combination of the filtering knobs with a limit or none,
\* and every sort key with every order, with a limit or none
KnobFilters ==
    { Spread(Spread(Spread(Spread(Spread(Spread(Spread(a, f), ms), mf), ma), rt), et), l) :
        a \in OptionalKnob("excludeArchived", {Bool(TRUE), Bool(FALSE)}),
        f \in OptionalKnob("excludeForks", {Bool(TRUE)}),
        ms \in OptionalKnob("minStars", {Num(0), Num(2)}),
        mf \in OptionalKnob("minForks", {Num(1)}),
        ma \in OptionalKnob("maxAge", {Num(60)}),
        rt \in OptionalKnob("requiredTopics", {Arr(<<>>), Arr(<<"React", "nothing">>)}),
        et \in OptionalKnob("excludeTopics", {Arr(<<"feat">>)}),
        l \in OptionalKnob("limit", {Num(1)}) }

SortKeys == {"stars", "updated", "created", "name"}

SortFilters ==
    { Spread(Spread(sb, so), l) :
        sb \in OptionalKnob("sortBy", {Str(k) : k \in SortKeys}),
        so \in OptionalKnob("sortOrder", {Str("asc"), Str("desc")}),
        l \in OptionalKnob("limit", {Num(2)}) }

FilterArgs == KnobFilters \cup SortFilters

\* The dynamic catalog requested with each sort key and with none
SortQueries ==
    {[type |-> <<"dynamic">>]} \cup {[type |-> <<"dynamic">>, sortBy |-> <<k>>] : k \in SortKeys}

InitFilters ==
    /\ up \in FilterWorlds
    /\ fault = NoFault
    /\ AllIdle

\* One call is followed at a time: a direct call of applyProjectFilters or a request
NextFilters ==
    \/ \E filters \in FilterArgs : pjPc = "idle" /\ AF_Call(up, filters)
    \/ \E query \in SortQueries : afPc = "idle" /\ PJ_Request(query)
    \/ PJ_Respond

SpecFilters == InitFilters /\ [][NextFilters]_vars

\* The value a repository is ordered by under a sort key
SortKeyOf(sortBy, r) ==
    CASE sortBy = "stars"   -> r.stargazers_count
      [] sortBy = "updated" -> r.updated_at
      [] sortBy = "created" -> r.created_at
      [] sortBy = "name"    -> NameRank(r.name)

\* s is in the order asked for: non-decreasing in the key for asc, non-increasing otherwise
OrderedBy(s, sortBy, sortOrder) ==
    \A i \in 1..(Len(s) - 1) :
        IF sortOrder = "asc"
        THEN SortKeyOf(sortBy, s[i]) <= SortKeyOf(sortBy, s[i + 1])
        ELSE SortKeyOf(sortBy, s[i]) >= SortKeyOf(sortBy, s[i + 1])

\* The repository of the account an entry of the dynamic catalog was converted from
RepositoryOf(project) == CHOOSE r \in Elems(up) : r.name = project.id

\* C25: what applyProjectFilters returns is ordered by the sort key of the filters
\* (stars, updated, created or name; updated when there is none) in their order
\* (descending when there is none), and the data of GET /api/projects?type=dynamic is
\* ordered by the sortBy of the query (updated without one), descending.
C25_OrderedByRequestedKey ==
    /\ afPc = "returned" =>
          OrderedBy(afResult,
                    IF "sortBy" \in DOMAIN afFilters THEN afFilters["sortBy"].s ELSE "updated",
                    IF "sortOrder" \in DOMAIN afFilters THEN afFilters["sortOrder"].s ELSE "desc")
    /\ pjPc = "done" /\ pjResponse.success =>
          OrderedBy([i \in 1..Len(pjResponse.data) |-> RepositoryOf(pjResponse.data[i])],
                    IF "sortBy" \in DOMAIN pjQuery THEN pjQuery["sortBy"][1] ELSE "updated",
                    "desc")

\* Upstream lists repositories of 5, 0 and 10 stars; ?type=dynamic&sortBy=stars answers
\* with the entries of the repositories of 10, 5 and 0 stars, in that order
C25_Witness ==
    /\ pjPc = "done"
    /\ pjQuery = [type |-> <<"dynamic">>, sortBy |-> <<"stars">>]
    /\ [i \in 1..Len(fetchUserRepositories(up, fault)) |->
           fetchUserRepositories(up, fault)[i].stargazers_count] = <<5, 0, 10>>
    /\ pjResponse.success
    /\ [i \in 1..Len(pjResponse.data) |-> RepositoryOf(pjResponse.data[i]).stargazers_count] = <<10, 5, 0>>

\* applyProjectFilters was asked for ascending names and returned them so, against the
\* order of the array it was given
C25_WitnessAscending ==
    /\ afPc = "returned"
    /\ "sortOrder" \in DOMAIN afFilters /\ afFilters["sortOrder"] = Str("asc")
    /\ "sortBy" \in DOMAIN afFilters /\ afFilters["sortBy"] = Str("created")
    /\ Len(afResult) = 3
    /\ [i \in 1..3 |-> afResult[i].name] = <<"gamma", "alpha", "beta">>

\* The repository passes every knob of the filters that is active
PassesKnobs(r, filters) ==
    /\ Get(filters, "excludeArchived") # Bool(FALSE) => ~r.archived
    /\ Get(filters, "excludeForks") = Bool(TRUE) => ~r.fork
    /\ "minStars" \in DOMAIN filters => r.stargazers_count >= filters["minStars"].n
    /\ "minForks" \in DOMAIN filters => r.forks_count >= filters["minForks"].n
    /\ "maxAge" \in DOMAIN filters => Today - r.updated_at <= filters["maxAge"].n
    /\ "requiredTopics" \in DOMAIN filters /\ filters["requiredTopics"].items # <<>> =>
          \E t \in Elems(filters["requiredTopics"].items) : HasTopicLike(r, t)
    /\ "excludeTopics" \in DOMAIN filters =>
          \A t \in Elems(filters["excludeTopics"].items) : ~HasTopicLike(r, t)

\* C26: applyProjectFilters returns, each once, only repositories of its argument that
\* pass every active knob (archived only with excludeArchived false, no fork with
\* excludeForks, stars and forks at least the minimum, updated within maxAge days, a
\* topic containing a required one, none containing an excluded one, without regard to
\* case); all of them without a limit, and the limit's number of them otherwise; and the
\* argument is as it was.
C26_ExactlyThePassingRepositories ==
    afPc = "returned" =>
        LET passing == {r \in Elems(up) : PassesKnobs(r, afFilters)}
        IN  /\ Elems(afResult) \subseteq passing
            /\ Cardinality(Elems(afResult)) = Len(afResult)
            /\ "limit" \notin DOMAIN afFilters => Elems(afResult) = passing
            /\ "limit" \in DOMAIN afFilters =>
                  Len(afResult) = Min(afFilters["limit"].n, Cardinality(passing))
            /\ afInput = up

\* With excludeArchived false and minStars 2, of a repository without stars and an
\* archived one with 3 the archived one alone is returned
C26_Witness ==
    /\ afPc = "returned"
    /\ Len(up) = 2
    /\ Get(afFilters, "excludeArchived") = Bool(FALSE)
    /\ Get(afFilters, "minStars") = Num(2)
    /\ ~up[1].archived /\ up[1].stargazers_count = 0
    /\ up[2].archived
    /\ afResult = <<up[2]>>
    /\ afInput = up

\* Required topic React, excluded topic feat: the repository with topic reactjs is
\* returned and the one with topic Featured is not
C26_WitnessTopics ==
    /\ afPc = "returned"
    /\ Len(up) = 2
    /\ Get(afFilters, "requiredTopics") = Arr(<<"React", "nothing">>)
    /\ Get(afFilters, "excludeTopics") = Arr(<<"feat">>)
    /\ \E i \in 1..Len(up[1].topics) : up[1].topics[i] = "Featured"
    /\ \E i \in 1..Len(up[2].topics) : up[2].topics[i] = "reactjs"
    /\ afResult = <<up[2]>>

\* The argument was in an order other than the one asked for, and is so still
C26_WitnessUnmodified ==
    /\ afPc = "returned"
    /\ Len(afResult) = Len(up)
    /\ afResult # up
    /\ afInput = up

-----------------------------------------------------------------------------
(* The visitor's pages while upstream fails *)

\* Every class of upstream calls fails, each in any way
AllFail == [CallClasses -> FaultKinds \ {"none"}]

\* The accounts behind the pages
PagesWorlds == FaultedWorlds \cup {SortWorld}

\* An account that is served, for comparison: one repository without stars
ServedWorld ==
    << UpRepo("alpha", 1, 0, 0, "", <<[language |-> "Go", bytes |-> 1]>>, <<Commit("alpha", 1)>>) >>

InitPages ==
    /\ \/ up \in PagesWorlds /\ fault \in AllFail
       \/ up = ServedWorld /\ fault = NoFault
    /\ AllIdle

\* The pages send their requests, the handlers of /api/projects and /api/github/stats
\* serve them, and the pages take the answers
NextPages ==
    \/ PP_Fetch
    \/ ppPc = "fetching" /\ PJ_Request(NoFilters)
    \/ PJ_Respond
    \/ PP_Receive
    \/ SV_Fetch
    \/ svPc = "fetching" /\ GS_Call
    \/ GS_ListResolved
    \/ \E i \in 1..ManyRepos : GS_LanguagesResolved(i)
    \/ GS_LanguagesJoined
    \/ \E i \in 1..ManyRepos : GS_CommitsResolved(i)
    \/ GS_Return
    \/ ST_Respond
    \/ SV_Receive

\* Every pending step of the pages and the handlers is run in the end
SpecPages == InitPages /\ [][NextPages]_vars /\ WF_vars(NextPages)

\* The pages have taken their answers
PagesSettled == ppPc = "done" /\ svPc = "done"

\* No page shows an error, and a page that has taken its answer shows the fallback
NoBrokenPage ==
    /\ ppError = Null
    /\ svError = Null
    /\ ppPc = "done" => ppProjects = STATIC_PROJECTS
    /\ svPc = "done" =>
          /\ svLoading = FALSE
          /\ svStats # NullObject
          /\ svStats.totalRepositories = 0 /\ svStats.totalStars = 0
          /\ svStats.totalForks = 0 /\ svStats.totalCommits = 0
          /\ svStats.mostUsedLanguages = <<>>
          /\ svStats.recentActivity = <<>>

\* C27: when every upstream call fails, neither page ever has an error; both pages take
\* their answers in the end, the projects page with the static catalog as its projects
\* and the stats view with loading false and stats of zero counts and an empty feed.
C27_NeverABrokenPage ==
    /\ [](fault \in AllFail => NoBrokenPage)
    /\ (fault \in AllFail) ~> PagesSettled

\* Upstream rate-limits the listing and fails every other call of an account with
\* repositories; both pages have settled on their fallbacks
C27_Witness ==
    /\ fault \in AllFail
    /\ fault["list"] = "rate_limit" /\ fault["commits"] = "client"
    /\ Len(up) > 0
    /\ PagesSettled
    /\ ppProjects = STATIC_PROJECTS /\ ppError = Null
    /\ svStats = EmptyStats /\ svLoading = FALSE /\ svError = Null


-----------------------------------------------------------------------------
(* The response interceptor on every kind of failed exchange *)

\* Statuses of a failed exchange: none at all (0), client errors and server errors
FailedStatuses == {0, 400, 401, 403, HttpNotFound, 422, HttpTooManyRequests, 500, 502, 503}
RemainingHeaders == {"0", "1", ""}
ResetHeaders == {<<>>, <<"1", "7">>}
BodyMessages == {<<>>, <<"Bad", "credentials">>}

\* error.response of a rejected request: status, headers and data.message
FailedExchanges ==
    { [status |-> st, remaining |-> IF st = 0 THEN "" ELSE rem,
       reset |-> IF st = 0 THEN <<>> ELSE rs,
       message |-> IF st = 0 THEN <<>> ELSE msg, body |-> NullObject]
      : st \in FailedStatuses, rem \in RemainingHeaders, rs \in ResetHeaders, msg \in BodyMessages }

InitInterceptor ==
    /\ up = ServedWorld
    /\ fault = NoFault
    /\ AllIdle

NextInterceptor ==
    \E exchange \in FailedExchanges : RI_Reject(exchange)

SpecInterceptor == InitInterceptor /\ [][NextInterceptor]_vars

\* Upstream reports its quota exhausted: 403 with no requests remaining, or 429
QuotaExhausted(exchange) ==
    \/ exchange.status = 403 /\ exchange.remaining = "0"
    \/ exchange.status = HttpTooManyRequests

\* C28: every failed upstream call is rejected with exactly one kind of error: a quota
\* exhaustion (an upstream 429 included) with the rate-limit error, carrying the reset
\* time whenever upstream supplied one; a 404 with the not-found error; a 5xx with the
\* server error and its status; any other 4xx with its status and message; an exchange
\* without a response with the network error.
C28_OneKindPerFailure ==
    riPc = "rejected" =>
        IF riExchange.status = 0
        THEN riError.status = 0 /\ riError.message[1] = "Network"
        ELSE IF QuotaExhausted(riExchange)
        THEN /\ riError.status = HttpTooManyRequests
             /\ riExchange.reset # <<>> => riError.resetTime = ResetDate(riExchange.reset)
        ELSE IF riExchange.status = HttpNotFound
        THEN riError.status = HttpNotFound /\ riError.message = <<"Resource", "not", "found">>
        ELSE IF riExchange.status >= 500
        THEN /\ riError.status = riExchange.status
             /\ riError.message = <<"GitHub", "API", "server", "error">>
        ELSE /\ riError.status = riExchange.status
             /\ riError.message = IF riExchange.message # <<>> THEN riExchange.message
                                  ELSE <<"HTTP", "error">>


-----------------------------------------------------------------------------
(* The fetchers on every outcome of their upstream call *)

\* The failures of one call class, the 404 of a vanished account or repository included
FetcherFaults ==
    {[NoFault EXCEPT ![c] = k] : c \in CallClasses, k \in FaultKinds \cup {"not_found"}}

InitFetcher ==
    /\ up \in FaultedWorlds
    /\ fault \in FetcherFaults
    /\ AllIdle

NextFetcher ==
    \E fetcher \in CallClasses, repoName \in RepoNameArgs : FT_Call(fetcher, repoName)

SpecFetcher == InitFetcher /\ [][NextFetcher]_vars

\* What each fetcher returns when its request fails
FallbackOf(fetcher) ==
    CASE fetcher = "list"      -> <<>>
      [] fetcher = "details"   -> NullObject
      [] fetcher = "languages" -> <<>>
      [] fetcher = "commits"   -> <<>>

\* C29: for each of the four fetchers, a request that upstream answers with not found
\* yields the fetcher's empty or null result, logs no error and issues no second
\* request; a request that fails in any other way is logged exactly once and issues no
\* second request either.
C29_NotFoundIsQuietOthersLoggedOnce ==
    ftPc = "returned" /\ ~ftOutcome.ok =>
        /\ ftRequests = 1
        /\ ftResult = FallbackOf(ftFetcher)
        /\ IF ftOutcome.error.status = HttpNotFound THEN Len(ftLog) = 0 ELSE Len(ftLog) = 1


-----------------------------------------------------------------------------
(* The featured list on accounts with more starred repositories than it holds *)

\* An account of ManyStarred repositories whose star counts repeat and include zero
ManyStarred == 8
StarsOf(i) == (i * 3) % 5
StarredWorld == [i \in 1..ManyStarred |-> CatalogRepo(PlainNames[i], 10 + i, StarsOf(i), 0, "", <<>>)]

InitStarred ==
    /\ \/ up \in CatalogWorlds \cup {StarredWorld} /\ fault = NoFault
       \/ up \in CatalogWorldsOf(1) \cup {StarredWorld} /\ fault \in SingleFaults
    /\ AllIdle

NextStarred ==
    \/ FP_Request
    \/ FP_Respond

SpecStarred == InitStarred /\ [][NextStarred]_vars

\* The repositories of the live list with at least one star; the list is empty when the
\* listing call fails
StarredLive ==
    IF fault["list"] # "none" THEN {}
    ELSE {r \in Elems(LiveRepositories) : r.stargazers_count >= 1}

\* C30: getFeaturedProjects returns exactly STATIC_PROJECTS when the live list has no
\* repository with at least 1 star or the listing fails; otherwise it returns at most 6
\* entries, each of a repository with at least 1 star, in non-increasing order of stars,
\* each with featured = true and priority (n - index) * 10, strictly decreasing by position.
C30_FeaturedIsStarredTopSixOrStatic ==
    fpPc = "done" =>
        LET data == fpResponse.data
            n == Len(data)
        IN  IF StarredLive = {}
            THEN data = STATIC_PROJECTS
            ELSE /\ n <= FeaturedLimit
                 /\ \A i \in 1..n :
                       /\ \E r \in StarredLive : r.name = data[i].id
                       /\ data[i].featured = TRUE
                       /\ data[i].priority = Num((n - (i - 1)) * 10)
                 /\ \A i \in 1..(n - 1) :
                       /\ RepositoryOf(data[i]).stargazers_count
                             >= RepositoryOf(data[i + 1]).stargazers_count
                       /\ data[i].priority.n > data[i + 1].priority.n

\* More repositories are starred than the list holds: six entries come back, led by the
\* most starred
C30_Witness ==
    /\ fpPc = "done"
    /\ Cardinality(StarredLive) > FeaturedLimit
    /\ Len(fpResponse.data) = FeaturedLimit
    /\ fpResponse.data[1].priority = Num(FeaturedLimit * 10)
    /\ \A r \in StarredLive : r.stargazers_count <= RepositoryOf(fpResponse.data[1]).stargazers_count

\* Repositories are listed but none is starred: the static catalog comes back
C30_WitnessStatic ==
    /\ fpPc = "done"
    /\ fault["list"] = "none"
    /\ Len(LiveRepositories) > 0
    /\ StarredLive = {}
    /\ fpResponse.data = STATIC_PROJECTS

====
